---- MODULE Spec2Model ----
(***************************************************************************)
(* A model of the RatedCapacity component (src/unnamed/part_000): its      *)
(* date / number / CSV helpers as operators, and the component's state     *)
(* (installed capacity, PLF, daily records, the bootstrap fetches and the  *)
(* localStorage mirror) as a state machine.                                *)
(*                                                                         *)
(* Representation.                                                         *)
(*   - A JavaScript string is a sequence of one-character strings, so that *)
(*     trimming, splitting, regular-expression tests and padding are       *)
(*     computed character by character as the code computes them.          *)
(*   - null is the empty sequence (Null): the code only ever tests the     *)
(*     result of a parser for falsiness, and no parser returns "".         *)
(*   - A JavaScript number is an integer count of 10^-FracDigits units     *)
(*     (fixed point); Number(x) yields [fin |-> FALSE, v |-> 0] for NaN    *)
(*     and the infinities.                                                 *)
(*   - A Map<string, number> is a function whose DOMAIN is its key set.    *)
(***************************************************************************)
EXTENDS Integers, Sequences, FiniteSets, TLC

VARIABLES
    isoLenient,          \* engine: Date accepts YYYY-MM-DD with DD <= 31 in any month
    storeReadThrows,     \* localStorage.getItem throws
    storeWriteThrows,    \* localStorage.setItem throws
    store,               \* localStorage: key -> stored item
    phase,               \* "constructed" | "mounted" | "unmounted"; "crashed" after
                         \* an exception no handler caught
    installed,           \* useState installed
    plf,                 \* useState plf
    capacityCsvMissing,  \* useState capacityCsvMissing
    capacityCsvMsg,      \* useState capacityCsvMsg ("none" for null)
    capFetch,            \* loadCapacitySingleRow: position and outcome
    history,             \* useState history
    historyError,        \* useState historyError ("none" for null)
    historyLoadedFrom,   \* useState historyLoadedFrom ("none" for null)
    histFetch,           \* loadHistory: position and outcome
    startMonth,          \* useState startMonth (<< >> for "")
    endMonth,            \* useState endMonth (<< >> for "")
    dailyMap,            \* useState dailyMap
    dailyMsg,            \* useState dailyMsg ("none" for null)
    dailyErrors,         \* useState dailyErrors
    pendingImport,       \* importDailyCSV awaiting file.text()
    lastWrite,           \* history variable: what the latest write to each key or source gave
    fnArg,               \* pure-function specifications: the argument
    fnRes                \* pure-function specifications: the result

vars == << isoLenient, storeReadThrows, storeWriteThrows, store, phase,
           installed, plf, capacityCsvMissing, capacityCsvMsg, capFetch,
           history, historyError, historyLoadedFrom, histFetch,
           startMonth, endMonth,
           dailyMap, dailyMsg, dailyErrors, pendingImport, lastWrite,
           fnArg, fnRes >>

-----------------------------------------------------------------------------
(* Bounds of the model *)

\* Digits kept after the decimal point by the fixed-point numbers.
FracDigits == 3
\* Lines of an imported CSV text.
MaxCsvLines == 3

-----------------------------------------------------------------------------
(* Strings *)

Null == << >>

DIGITS == << "0", "1", "2", "3", "4", "5", "6", "7", "8", "9" >>
UPPER == << "A", "B", "C", "D", "E", "F", "G", "H", "I", "J", "K", "L", "M",
            "N", "O", "P", "Q", "R", "S", "T", "U", "V", "W", "X", "Y", "Z" >>
LOWER == << "a", "b", "c", "d", "e", "f", "g", "h", "i", "j", "k", "l", "m",
            "n", "o", "p", "q", "r", "s", "t", "u", "v", "w", "x", "y", "z" >>
\* What String.prototype.trim removes, among the characters of the model.
WS == { " ", "\t", "\r" }

DigitSet == { DIGITS[i] : i \in 1..10 }
IsDigit(c) == c \in DigitSet
DigitVal(c) == (CHOOSE i \in 1..10 : DIGITS[i] = c) - 1
AllDigits(s) == \A i \in 1..Len(s) : IsDigit(s[i])

\* Number("0123") for a run of decimal digits, read from position i on with
\* the value of the digits before it.
RECURSIVE DigitsFrom(_, _, _)
DigitsFrom(s, i, acc) ==
    IF i > Len(s) THEN acc ELSE DigitsFrom(s, i + 1, 10 * acc + DigitVal(s[i]))

DigitsToNat(s) == DigitsFrom(s, 1, 0)

\* String(n) for a natural number.
RECURSIVE NatToDigits(_)
NatToDigits(n) ==
    IF n < 10 THEN << DIGITS[n + 1] >>
    ELSE NatToDigits(n \div 10) \o << DIGITS[(n % 10) + 1] >>

PadStart(s, n, c) ==
    IF Len(s) >= n THEN s ELSE [i \in 1..(n - Len(s)) |-> c] \o s

RECURSIVE TrimStart(_)
TrimStart(s) ==
    IF s # << >> /\ s[1] \in WS THEN TrimStart(Tail(s)) ELSE s

RECURSIVE TrimEnd(_)
TrimEnd(s) ==
    IF s # << >> /\ s[Len(s)] \in WS THEN TrimEnd(SubSeq(s, 1, Len(s) - 1)) ELSE s

Trim(s) == TrimEnd(TrimStart(s))

\* TLC evaluates a definition each time it is used: a value that is costly to
\* compute is bound once, as the only element of a set.
TheOne(S) == CHOOSE v \in S : TRUE

\* s.split(sep) for a one-character separator, from position i on with the
\* piece being read and the pieces already cut: always at least one piece.
RECURSIVE SplitFrom(_, _, _, _, _)
SplitFrom(s, sep, i, piece, out) ==
    IF i > Len(s) THEN Append(out, piece)
    ELSE IF s[i] = sep THEN SplitFrom(s, sep, i + 1, << >>, Append(out, piece))
    ELSE SplitFrom(s, sep, i + 1, Append(piece, s[i]), out)

Split(s, sep) == SplitFrom(s, sep, 1, << >>, << >>)

RECURSIVE Join(_, _)
Join(parts, sep) ==
    IF parts = << >> THEN << >>
    ELSE IF Len(parts) = 1 THEN parts[1]
    ELSE parts[1] \o << sep >> \o Join(Tail(parts), sep)

ToLowerChar(c) ==
    IF \E i \in 1..26 : UPPER[i] = c
    THEN LOWER[CHOOSE i \in 1..26 : UPPER[i] = c]
    ELSE c
ToLowerCase(s) == [i \in 1..Len(s) |-> ToLowerChar(s[i])]

Includes(s, sub) ==
    \E i \in 1..(Len(s) - Len(sub) + 1) : SubSeq(s, i, i + Len(sub) - 1) = sub

RECURSIVE SelectNonEmpty(_)
SelectNonEmpty(ss) ==
    IF ss = << >> THEN << >>
    ELSE IF ss[1] = << >> THEN SelectNonEmpty(Tail(ss))
    ELSE << ss[1] >> \o SelectNonEmpty(Tail(ss))

\* text.split(/\r?\n/).map(l => l.trim()).filter(Boolean); trim removes the \r.
SplitLines(text) ==
    LET raw == Split(text, "\n")
    IN  SelectNonEmpty([i \in 1..Len(raw) |-> Trim(raw[i])])

\* UTF-16 code units of the characters a date key can hold.
CharCode(c) == IF IsDigit(c) THEN 48 + DigitVal(c) ELSE 45

\* a < b on strings: the first differing code unit decides, a proper prefix is less.
RECURSIVE StrLess(_, _)
StrLess(a, b) ==
    IF b = << >> THEN FALSE
    ELSE IF a = << >> THEN TRUE
    ELSE IF a[1] = b[1] THEN StrLess(Tail(a), Tail(b))
    ELSE CharCode(a[1]) < CharCode(b[1])

-----------------------------------------------------------------------------
(* Numbers *)

RECURSIVE Pow10(_)
Pow10(n) == IF n = 0 THEN 1 ELSE 10 * Pow10(n - 1)

Scale == Pow10(FracDigits)

NaN == [fin |-> FALSE, v |-> 0]
Fin(n) == [fin |-> TRUE, v |-> n]

\* The digits of a fraction as a count of 10^-FracDigits units.
FracToUnits(f) ==
    LET kept == SubSeq(f, 1, IF Len(f) < FracDigits THEN Len(f) ELSE FracDigits)
    IN  DigitsToNat(kept) * Pow10(FracDigits - Len(kept))

\* An unsigned StrDecimalLiteral without exponent: 12, 12., 12.5, .5
UnsignedLiteral(b) ==
    LET p == Split(b, ".")
    IN  IF Len(p) = 1 THEN
            IF p[1] # << >> /\ AllDigits(p[1])
            THEN Fin(DigitsToNat(p[1]) * Scale) ELSE NaN
        ELSE IF Len(p) = 2 THEN
            IF AllDigits(p[1]) /\ AllDigits(p[2]) /\ (p[1] # << >> \/ p[2] # << >>)
            THEN Fin(DigitsToNat(p[1]) * Scale + FracToUnits(p[2])) ELSE NaN
        ELSE NaN

\* Number(x) for a string x: trimmed, "" is 0, an optional sign, a decimal
\* literal; anything else (and Infinity, not finite either) is not finite.
NumberOf(s) ==
    LET t == Trim(s)
    IN  IF t = << >> THEN Fin(0)
        ELSE IF t[1] = "-" THEN
            LET u == UnsignedLiteral(Tail(t))
            IN  IF u.fin THEN Fin(0 - u.v) ELSE NaN
        ELSE IF t[1] = "+" THEN UnsignedLiteral(Tail(t))
        ELSE UnsignedLiteral(t)

RECURSIVE StripTrailingZeros(_)
StripTrailingZeros(s) ==
    IF s # << >> /\ s[Len(s)] = "0"
    THEN StripTrailingZeros(SubSeq(s, 1, Len(s) - 1)) ELSE s

\* String(n) for a finite number: shortest decimal form, no exponent in range.
NumberToString(n) ==
    LET a == IF n < 0 THEN 0 - n ELSE n
        ip == NatToDigits(a \div Scale)
        fp == StripTrailingZeros(PadStart(NatToDigits(a % Scale), FracDigits, "0"))
    IN  (IF n < 0 THEN << "-" >> ELSE << >>)
        \o ip \o (IF fp = << >> THEN << >> ELSE << "." >> \o fp)

\* A coercion that keeps the digits before a tail that is not numeric, as
\* parseFloat does, and gives 0 when there are none.
safeNum_LeadingDigits(x) ==
    LET t == Trim(x)
        k == IF \A i \in 1..Len(t) : IsDigit(t[i]) THEN Len(t)
             ELSE (CHOOSE i \in 1..Len(t) :
                       ~IsDigit(t[i]) /\ \A j \in 1..(i - 1) : IsDigit(t[j])) - 1
    IN  IF k = Len(t) THEN (LET n == NumberOf(x) IN IF n.fin THEN n.v ELSE 0)
        ELSE IF k = 0 THEN (LET n == NumberOf(x) IN IF n.fin THEN n.v ELSE 0)
        ELSE DigitsToNat(SubSeq(t, 1, k)) * Scale

\* src 62-65
safeNum(x) == LET n == NumberOf(x) IN IF n.fin THEN n.v ELSE 0

-----------------------------------------------------------------------------
(* Dates *)

IsLeap(y) == (y % 4 = 0 /\ y % 100 # 0) \/ y % 400 = 0

\* Days of month index mi (0 = January) of year y.
DaysInMonth(y, mi) ==
    IF mi = 1 THEN (IF IsLeap(y) THEN 29 ELSE 28)
    ELSE IF mi \in {3, 5, 8, 10} THEN 30 ELSE 31

\* MakeDay: a date that lies outside its month rolls into the months around it.
RECURSIVE RollDays(_, _, _)
RollDays(y, mi, d) ==
    IF d < 1 THEN
        LET py == IF mi = 0 THEN y - 1 ELSE y
            pm == IF mi = 0 THEN 11 ELSE mi - 1
        IN  RollDays(py, pm, d + DaysInMonth(py, pm))
    ELSE IF d > DaysInMonth(y, mi) THEN
        LET ny == IF mi = 11 THEN y + 1 ELSE y
            nm == IF mi = 11 THEN 0 ELSE mi + 1
        IN  RollDays(ny, nm, d - DaysInMonth(y, mi))
    ELSE << y, mi, d >>

\* new Date(Date.UTC(year, monthIndex, date)) as <<getUTCFullYear, getUTCMonth,
\* getUTCDate>>. Date.UTC reads a year of 0..99 as 1900 + year.
DateUTC(year, mi, d) ==
    LET fy == IF year >= 0 /\ year <= 99 THEN 1900 + year ELSE year
    IN  RollDays(fy + (mi \div 12), mi % 12, d)

\* /^\d{2}<sep>\d{2}<sep>\d{4}$/.test(t)
MatchesDMY(t, sep) ==
    /\ Len(t) = 10
    /\ t[3] = sep /\ t[6] = sep
    /\ \A i \in {1, 2, 4, 5, 7, 8, 9, 10} : IsDigit(t[i])

\* /^\d{4}-\d{2}-\d{2}$/.test(t)
MatchesISO(t) ==
    /\ Len(t) = 10
    /\ t[5] = "-" /\ t[8] = "-"
    /\ \A i \in {1, 2, 3, 4, 6, 7, 9, 10} : IsDigit(t[i])

\* !Number.isNaN(new Date(s + "T00:00:00Z").getTime()) for s matching
\* YYYY-MM-DD. Every engine rejects a month outside 01..12 and a day outside
\* 01..31; V8 accepts any day up to 31 and rolls it into the next month, the
\* other engines reject a day the month does not have.
IsoDateTimeValid(s) ==
    LET p == Split(s, "-")
        y == DigitsToNat(p[1])
        m == DigitsToNat(p[2])
        d == DigitsToNat(p[3])
    IN  /\ m >= 1 /\ m <= 12
        /\ d >= 1
        /\ d <= (IF isoLenient THEN 31 ELSE DaysInMonth(y, m - 1))

\* src 284-289
parseISOKey(s) ==
    IF ~MatchesISO(s) THEN Null
    ELSE IF ~IsoDateTimeValid(s) THEN Null ELSE s

\* src 297-308 and 311-322: the two day-first branches, which differ in the
\* separator only. Date.UTC of three integers is never NaN.
ParseDayFirst(t, sep) ==
    LET p == Split(t, sep)
        dd == DigitsToNat(p[1])
        mm == DigitsToNat(p[2])
        yyyy == DigitsToNat(p[3])
        d == DateUTC(yyyy, mm - 1, dd)
    IN  IF d[1] # yyyy \/ d[2] # mm - 1 \/ d[3] # dd THEN Null
        ELSE NatToDigits(yyyy) \o << "-" >> \o PadStart(NatToDigits(mm), 2, "0")
             \o << "-" >> \o PadStart(NatToDigits(dd), 2, "0")

\* src 292-326
parseInputDate(s) ==
    LET t == Trim(s)
    IN  IF MatchesDMY(t, "/") THEN ParseDayFirst(t, "/")
        ELSE IF MatchesDMY(t, "-") THEN ParseDayFirst(t, "-")
        ELSE IF MatchesISO(t) THEN parseISOKey(t)
        ELSE Null

\* src 328-332; the em dash placeholder is the one-character string "--".
formatDDMMYYYY(iso) ==
    IF iso = << >> \/ ~MatchesISO(iso) THEN << "--" >>
    ELSE LET p == Split(iso, "-") IN p[3] \o << "-" >> \o p[2] \o << "-" >> \o p[1]

\* src 335-339
formatDDMMYYYYForCSV(iso) ==
    IF iso = << >> \/ ~MatchesISO(iso) THEN << "--" >>
    ELSE LET p == Split(iso, "-") IN p[3] \o << "/" >> \o p[2] \o << "/" >> \o p[1]

\* src 369-371
sortISO(a, b) == IF StrLess(a, b) THEN -1 ELSE IF StrLess(b, a) THEN 1 ELSE 0

-----------------------------------------------------------------------------
(* Daily records: CSV text and the record map *)

\* line.split(",").map(c => c.trim())
SplitCells(line) ==
    LET raw == Split(line, ",") IN [i \in 1..Len(raw) |-> Trim(raw[i])]

\* src 406-410: a line of fewer than two cells is no row.
RECURSIVE RowsOf(_)
RowsOf(lines) ==
    IF lines = << >> THEN << >>
    ELSE LET cols == SplitCells(lines[1])
         IN  (IF Len(cols) >= 2 THEN << cols >> ELSE << >>) \o RowsOf(Tail(lines))

\* src 413-416
DropHeader(rows) ==
    IF rows # << >> /\ Includes(ToLowerCase(rows[1][1]), << "d", "a", "t", "e" >>)
    THEN Tail(rows) ELSE rows

\* String(vRaw).replace(/,/g, "")
StripCommas(s) == SelectSeq(s, LAMBDA c : c # ",")

\* src 421-435, from row index i (0-based) on. An error message is kept as its
\* parts: the 1-based row number, which cell it names, and the raw cell.
RECURSIVE ParseRows(_, _, _)
ParseRows(rows, i, acc) ==
    IF i >= Len(rows) THEN acc
    ELSE LET dRaw == rows[i + 1][1]
             vRaw == rows[i + 1][2]
             date == parseInputDate(dRaw)
             v == NumberOf(StripCommas(vRaw))
         IN  IF date = Null THEN
                 ParseRows(rows, i + 1, [acc EXCEPT !.errors =
                     Append(@, [row |-> i + 1, what |-> "date", raw |-> dRaw])])
             ELSE IF ~v.fin THEN
                 ParseRows(rows, i + 1, [acc EXCEPT !.errors =
                     Append(@, [row |-> i + 1, what |-> "value", raw |-> vRaw])])
             ELSE
                 ParseRows(rows, i + 1, [acc EXCEPT !.parsed =
                     Append(@, [date |-> date, value |-> v.v])])

\* A parser that gives up the valid rows as soon as one row fails.
csvParseDaily_AllOrNothing(text) ==
    LET r == ParseRows(DropHeader(RowsOf(SplitLines(text))), 0,
                       [parsed |-> << >>, errors |-> << >>])
    IN  IF r.errors # << >> THEN [r EXCEPT !.parsed = << >>] ELSE r

\* src 400-438
csvParseDaily(text) ==
    ParseRows(DropHeader(RowsOf(SplitLines(text))), 0,
              [parsed |-> << >>, errors |-> << >>])

EmptyMap == << >>
MapSet(m, k, v) == [x \in (DOMAIN m) \cup {k} |-> IF x = k THEN v ELSE m[x]]
MapDelete(m, k) == [x \in (DOMAIN m) \ {k} |-> m[x]]

\* src 461-465
RECURSIVE mergeRecords(_, _)
mergeRecords(existingMap, incoming) ==
    IF incoming = << >> THEN existingMap
    ELSE mergeRecords(MapSet(existingMap, incoming[1].date, incoming[1].value),
                      Tail(incoming))

RECURSIVE InsertSorted(_, _)
InsertSorted(sorted, r) ==
    IF sorted = << >> THEN << r >>
    ELSE IF sortISO(r.date, sorted[1].date) < 0 THEN << r >> \o sorted
    ELSE << sorted[1] >> \o InsertSorted(Tail(sorted), r)

RECURSIVE SortEntries(_, _)
SortEntries(m, keys) ==
    IF keys = {} THEN << >>
    ELSE LET k == CHOOSE x \in keys : TRUE
         IN  InsertSorted(SortEntries(m, keys \ {k}), [date |-> k, value |-> m[k]])

\* src 763-767
dailySorted(m) == SortEntries(m, DOMAIN m)

DAILY_VALUE_COL ==
    << "R", "a", "t", "e", "d", "C", "a", "p", "a", "c", "i", "t", "y", "_", "G", "W" >>

\* src 922-929: the text handed to downloadCSV.
exportDailyCSV(m) ==
    LET header == << "d", "a", "t", "e", "," >> \o DAILY_VALUE_COL
        ds == dailySorted(m)
        lines == [i \in 1..Len(ds) |->
                     formatDDMMYYYYForCSV(ds[i].date) \o << "," >>
                     \o NumberToString(ds[i].value)]
    IN  Join(<< header >> \o lines, "\n")

-----------------------------------------------------------------------------
(* Inputs *)

D2(n) == PadStart(NatToDigits(n), 2, "0")
D4(n) == PadStart(NatToDigits(n), 4, "0")

SlashText(d, m, y) == D2(d) \o << "/" >> \o D2(m) \o << "/" >> \o D4(y)
DashText(d, m, y) == D2(d) \o << "-" >> \o D2(m) \o << "-" >> \o D4(y)
IsoText(d, m, y) == D4(y) \o << "-" >> \o D2(m) \o << "-" >> \o D2(d)

\* Day, month and year fields typed into a date: in and just outside the
\* calendar, a leap and a non-leap February, years of two, three and four digits.
DayFields == {0, 1, 28, 29, 30, 31, 32}
MonthFields == {0, 1, 2, 4, 12, 13}
YearFields == {50, 500, 1900, 2024}

ShapedDateTexts ==
    UNION { { SlashText(d, m, y), DashText(d, m, y), IsoText(d, m, y) } :
            d \in DayFields, m \in MonthFields, y \in YearFields }

OtherDateTexts ==
    { << >>,
      << "b", "a", "d" >>,
      << "1", "/", "2", "/", "2", "0", "2", "4" >>,
      << "1", "8", ".", "1", "2", ".", "2", "0", "2", "5" >>,
      << "1", "8", "/", "1", "2", "-", "2", "0", "2", "5" >>,
      << "1", "8", "/", "1", "2", "/", "2", "5" >>,
      << " " >> \o SlashText(18, 12, 2025) \o << " " >>,
      << " " >> \o IsoText(18, 12, 2025),
      SlashText(18, 12, 2025) \o << "x" >> }

DateTexts == ShapedDateTexts \cup OtherDateTexts

\* Lines an imported CSV is made of.
HeaderLine == << "d", "a", "t", "e", ",", "V" >>
CsvLines ==
    { HeaderLine,
      SlashText(18, 12, 2025) \o << ",", "2", "6", "1", ".", "7", "2" >>,
      << "b", "a", "d", ",", "o", "o", "p", "s" >>,
      SlashText(20, 13, 2025) \o << ",", "5" >>,
      SlashText(18, 12, 2025) \o << ",", "1", ",", "2", "3", "4", ".", "5" >>,
      IsoText(18, 12, 2025) \o << " ", ",", " ", "7", "\r" >>,
      DashText(19, 12, 2025) \o << ",", "x" >>,
      << "j", "u", "s", "t", "o", "n", "e" >>,
      << >> }

\* spec.md section 8: date,V / 18/12/2025,261.72 / bad,oops / 20/13/2025,5
ExampleCsv ==
    Join(<< HeaderLine,
            SlashText(18, 12, 2025) \o << ",", "2", "6", "1", ".", "7", "2" >>,
            << "b", "a", "d", ",", "o", "o", "p", "s" >>,
            SlashText(20, 13, 2025) \o << ",", "5" >> >>, "\n")

CsvTexts ==
    { Join(ls, "\n") : ls \in UNION { [1..n -> CsvLines] : n \in 1..MaxCsvLines } }
    \cup { ExampleCsv }

-----------------------------------------------------------------------------
(* The component at rest, for the specifications of the pure functions *)

SOURCES == << "Coal", "Oil & Gas", "Nuclear", "Hydro", "Solar", "Wind",
              "Small-Hydro", "Bio Power" >>
SourceSet == { SOURCES[i] : i \in 1..Len(SOURCES) }

INSTALLED_KEY == "ratedCapacity_installed"
PLF_KEY == "ratedCapacity_plf"
DAILY_KEY == "tusk_rated_capacity_daily_v1"
StoreKeys == { INSTALLED_KEY, PLF_KEY, DAILY_KEY }

\* A stored item: none, text that is not JSON, or a JSON object of numbers,
\* held as a function from its keys to the text of each value.
Absent == [kind |-> "absent", obj |-> << >>]
Corrupt == [kind |-> "corrupt", obj |-> << >>]
JsonObject(o) == [kind |-> "json", obj |-> o]

ZeroSources == [s \in SourceSet |-> 0]
IdleFetch ==
    [pc |-> "idle", cancelled |-> FALSE, outcome |-> "none", base |-> ZeroSources]
IdleHistFetch == [pc |-> "idle", path |-> 0, cancelled |-> FALSE, outcome |-> "none"]
NoImport == [active |-> FALSE, text |-> << >>]

ComponentAtRest ==
    /\ storeReadThrows = FALSE
    /\ storeWriteThrows = FALSE
    /\ store = [k \in StoreKeys |-> Absent]
    /\ phase = "constructed"
    /\ installed = ZeroSources
    /\ plf = ZeroSources
    /\ capacityCsvMissing = FALSE
    /\ capacityCsvMsg = "none"
    /\ capFetch = IdleFetch
    /\ history = << >>
    /\ historyError = "none"
    /\ historyLoadedFrom = "none"
    /\ histFetch = IdleHistFetch
    /\ startMonth = << >>
    /\ endMonth = << >>
    /\ dailyMap = EmptyMap
    /\ dailyMsg = "none"
    /\ dailyErrors = << >>
    /\ pendingImport = NoImport
    /\ lastWrite = [daily |-> EmptyMap, installed |-> ZeroSources, plf |-> ZeroSources]

componentVars ==
    << storeReadThrows, storeWriteThrows, store, phase, installed, plf,
       capacityCsvMissing, capacityCsvMsg, capFetch, history, historyError,
       historyLoadedFrom, histFetch, startMonth, endMonth, dailyMap, dailyMsg,
       dailyErrors, pendingImport, lastWrite >>

NoCall == [fn |-> "none", out |-> << >>]

-----------------------------------------------------------------------------
(* SpecParse: the date parser and the daily CSV parser applied to an input *)

InitParse ==
    /\ isoLenient \in BOOLEAN
    /\ ComponentAtRest
    /\ fnArg \in [fn : {"parseInputDate"}, text : DateTexts]
                 \cup [fn : {"csvParseDaily"}, text : CsvTexts]
    /\ fnRes = NoCall

CallParseInputDate ==
    /\ fnRes = NoCall
    /\ fnArg.fn = "parseInputDate"
    /\ fnRes' = [fn |-> "parseInputDate", out |-> parseInputDate(fnArg.text)]
    /\ UNCHANGED << isoLenient, componentVars, fnArg >>

CallCsvParseDaily ==
    /\ fnRes = NoCall
    /\ fnArg.fn = "csvParseDaily"
    /\ fnRes' = [fn |-> "csvParseDaily", out |-> csvParseDaily(fnArg.text)]
    /\ UNCHANGED << isoLenient, componentVars, fnArg >>

NextParse == CallParseInputDate \/ CallCsvParseDaily

SpecParse == InitParse /\ [][NextParse]_vars

-----------------------------------------------------------------------------
(* Properties of the parsers, under SpecParse *)

\* The calendar, independently of Date: a month 1..12 and a day the month has.
RealDate(y, m, d) ==
    /\ m \in 1..12
    /\ d >= 1
    /\ d <= (IF m = 2 THEN (IF (y % 4 = 0 /\ y % 100 # 0) \/ y % 400 = 0
                            THEN 29 ELSE 28)
             ELSE IF m \in {4, 6, 9, 11} THEN 30 ELSE 31)

HasDateShape(t) == MatchesDMY(t, "/") \/ MatchesDMY(t, "-") \/ MatchesISO(t)

\* The day, month and year a text of one of the three shapes spells.
FieldsOf(t) ==
    IF MatchesISO(t)
    THEN [y |-> DigitsToNat(SubSeq(t, 1, 4)), m |-> DigitsToNat(SubSeq(t, 6, 7)),
          d |-> DigitsToNat(SubSeq(t, 9, 10))]
    ELSE [d |-> DigitsToNat(SubSeq(t, 1, 2)), m |-> DigitsToNat(SubSeq(t, 4, 5)),
          y |-> DigitsToNat(SubSeq(t, 7, 10))]

\* A canonical key: YYYY-MM-DD of a real calendar date.
IsCanonicalKey(k) ==
    /\ MatchesISO(k)
    /\ RealDate(FieldsOf(k).y, FieldsOf(k).m, FieldsOf(k).d)

DataRowsOf(text) == DropHeader(RowsOf(SplitLines(text)))
RowValid(r) == parseInputDate(r[1]) # Null /\ NumberOf(r[2]).fin
ValidUpTo(rows, i) == Cardinality({ j \in 1..i : RowValid(rows[j]) })

C3_ParseInputDateExact ==
    fnRes.fn = "parseInputDate" =>
        LET t == Trim(fnArg.text)
        IN  IF HasDateShape(t) /\ RealDate(FieldsOf(t).y, FieldsOf(t).m, FieldsOf(t).d)
            THEN fnRes.out = IsoText(FieldsOf(t).d, FieldsOf(t).m, FieldsOf(t).y)
            ELSE fnRes.out = Null

\* The value of a line as written: all that follows the first comma.
WrittenValue(line) ==
    LET p == Split(line, ",") IN Join(Tail(p), ",")

\* C4: a data row whose value is written with thousands-separator commas
\* (1,234.5) yields a record holding the value with the commas stripped
\* (1234.5), not an error and not a truncated value.
C4_ThousandsSeparators ==
    fnRes.fn = "csvParseDaily" =>
        \A i \in 1..Len(SplitLines(fnArg.text)) :
            LET line == SplitLines(fnArg.text)[i]
                date == parseInputDate(Trim(Split(line, ",")[1]))
                val == NumberOf(StripCommas(WrittenValue(line)))
            IN  (/\ Len(Split(line, ",")) >= 3
                 /\ date # Null
                 /\ val.fin)
                => \E j \in 1..Len(fnRes.out.parsed) :
                       fnRes.out.parsed[j] = [date |-> date, value |-> val.v]

-----------------------------------------------------------------------------
(* localStorage *)

\* JSON.stringify of a record of numbers / of Object.fromEntries(dailyMap).
JSONStringify(f) == JsonObject([k \in DOMAIN f |-> NumberToString(f[k])])

\* localStorage.setItem(k, item) on store st.
SetItem(st, k, item) ==
    IF storeWriteThrows THEN [store |-> st, threw |-> TRUE]
    ELSE [store |-> [st EXCEPT ![k] = item], threw |-> FALSE]

\* A persistence effect without its try / catch: the exception leaves the effect.
PersistEffect_NoCatch(st, k, item) ==
    LET r == SetItem(st, k, item) IN [store |-> r.store, crashed |-> r.threw]

\* src 554-558, 560-564, 757-761: try { setItem } catch {}
PersistEffect(st, k, item) ==
    LET r == SetItem(st, k, item) IN [store |-> r.store, crashed |-> FALSE]

\* src 478-488, 490-500: the lazy initial state of installed and of plf.
RestoreSources(k) ==
    IF storeReadThrows THEN ZeroSources
    ELSE IF store[k].kind # "json" THEN ZeroSources
    ELSE [s \in SourceSet |->
             IF s \in DOMAIN store[k].obj THEN safeNum(store[k].obj[s]) ELSE 0]

\* src 740-755: the lazy initial state of dailyMap.
RestoreDaily ==
    IF storeReadThrows THEN EmptyMap
    ELSE IF store[DAILY_KEY].kind # "json" THEN EmptyMap
    ELSE LET obj == store[DAILY_KEY].obj
             keep == { k \in DOMAIN obj :
                         parseISOKey(k) # Null /\ NumberOf(obj[k]).fin }
         IN  [k \in keep |-> NumberOf(obj[k]).v]

-----------------------------------------------------------------------------
(* The daily card *)

ErrEnterDate == [row |-> 0, what |-> "Please enter a valid date", raw |-> << >>]
ErrEnterNumber == [row |-> 0, what |-> "Please enter a valid number", raw |-> << >>]
ErrNoValidRows == [row |-> 0, what |-> "No valid rows found in CSV", raw |-> << >>]
ErrCouldNotRead == [row |-> 0, what |-> "Could not read CSV", raw |-> << >>]

\* errors.slice(0, 12)
FirstTwelve(errors) == SubSeq(errors, 1, IF Len(errors) < 12 THEN Len(errors) ELSE 12)

\* The dailyMap effect (src 757-761) after a state update to map m.
DailyPersisted(m) == PersistEffect(store, DAILY_KEY, JSONStringify(m))

\* The dates a list of records names, and the value of the last record naming k.
NamedIn(parsed) == { parsed[i].date : i \in 1..Len(parsed) }
LastValueFor(parsed, k) ==
    parsed[CHOOSE i \in 1..Len(parsed) :
               /\ parsed[i].date = k
               /\ \A j \in (i + 1)..Len(parsed) : parsed[j].date # k].value

dailyFrame ==
    << isoLenient, storeReadThrows, storeWriteThrows, installed, plf,
       capacityCsvMissing, capacityCsvMsg, capFetch, history, historyError,
       historyLoadedFrom, histFetch, startMonth, endMonth, fnArg, fnRes >>

\* src 861-884, with the date and value text boxes holding dateText, valueText.
upsertDaily(dateText, valueText) ==
    LET iso == parseInputDate(dateText)
        v == NumberOf(StripCommas(valueText))
    IN  /\ phase = "mounted"
        /\ IF iso = Null THEN
               /\ dailyMsg' = "none"
               /\ dailyErrors' = << ErrEnterDate >>
               /\ UNCHANGED << dailyMap, store, phase, lastWrite >>
           ELSE IF ~v.fin THEN
               /\ dailyMsg' = "none"
               /\ dailyErrors' = << ErrEnterNumber >>
               /\ UNCHANGED << dailyMap, store, phase, lastWrite >>
           ELSE
               /\ dailyMap' = MapSet(dailyMap, iso, v.v)
               /\ dailyMsg' = "Saved"
               /\ dailyErrors' = << >>
               /\ store' = DailyPersisted(dailyMap').store
               /\ phase' = IF DailyPersisted(dailyMap').crashed THEN "crashed" ELSE phase
               /\ lastWrite' = [lastWrite EXCEPT !.daily =
                      [k \in (DOMAIN @) \cup {iso} |-> IF k = iso THEN v.v ELSE @[k]]]
        /\ UNCHANGED << dailyFrame, pendingImport >>

\* src 886-892
removeDaily(isoDate) ==
    /\ phase = "mounted"
    /\ isoDate \in DOMAIN dailyMap
    /\ dailyMap' = MapDelete(dailyMap, isoDate)
    /\ store' = DailyPersisted(dailyMap').store
    /\ phase' = IF DailyPersisted(dailyMap').crashed THEN "crashed" ELSE phase
    /\ lastWrite' = [lastWrite EXCEPT !.daily = [k \in (DOMAIN @) \ {isoDate} |-> @[k]]]
    /\ UNCHANGED << dailyFrame, dailyMsg, dailyErrors, pendingImport >>

\* src 894-898, the confirm dialog answered with confirmed.
clearDaily(confirmed) ==
    /\ phase = "mounted"
    /\ IF ~confirmed THEN
           UNCHANGED << dailyMap, dailyMsg, store, phase, lastWrite >>
       ELSE
           /\ dailyMap' = EmptyMap
           /\ dailyMsg' = "Cleared"
           /\ store' = DailyPersisted(dailyMap').store
           /\ phase' = IF DailyPersisted(dailyMap').crashed THEN "crashed" ELSE phase
           /\ lastWrite' = [lastWrite EXCEPT !.daily = EmptyMap]
    /\ UNCHANGED << dailyFrame, dailyErrors, pendingImport >>

\* src 900-906: importDailyCSV up to its await of file.text(), called with a
\* file of the given text or (hasFile false) with none. One import is in
\* flight at a time.
importDailyCSV_start(hasFile, text) ==
    /\ phase = "mounted"
    /\ ~pendingImport.active
    /\ dailyMsg' = "none"
    /\ dailyErrors' = << >>
    /\ pendingImport' = IF hasFile THEN [active |-> TRUE, text |-> text]
                        ELSE pendingImport
    /\ UNCHANGED << dailyFrame, dailyMap, store, phase, lastWrite >>

\* src 906-919: file.text() settles, rejected or with the text of the file.
importDailyCSV_settle(readOk) ==
    LET r == csvParseDaily(pendingImport.text)
        shown == FirstTwelve(r.errors)
    IN  /\ phase = "mounted"
        /\ pendingImport.active
        /\ pendingImport' = NoImport
        /\ IF ~readOk THEN
               /\ dailyErrors' = << ErrCouldNotRead >>
               /\ UNCHANGED << dailyMap, dailyMsg, store, phase, lastWrite >>
           ELSE IF r.parsed = << >> THEN
               /\ dailyErrors' = IF shown # << >> THEN shown
                                 ELSE IF dailyErrors # << >> THEN dailyErrors
                                 ELSE << ErrNoValidRows >>
               /\ UNCHANGED << dailyMap, dailyMsg, store, phase, lastWrite >>
           ELSE
               /\ dailyErrors' = IF shown # << >> THEN shown ELSE dailyErrors
               /\ dailyMap' = mergeRecords(dailyMap, r.parsed)
               /\ dailyMsg' = "Imported"
               /\ store' = DailyPersisted(dailyMap').store
               /\ phase' = IF DailyPersisted(dailyMap').crashed THEN "crashed" ELSE phase
               /\ lastWrite' = [lastWrite EXCEPT !.daily =
                      [k \in (DOMAIN @) \cup NamedIn(r.parsed) |->
                          IF k \in NamedIn(r.parsed)
                          THEN LastValueFor(r.parsed, k) ELSE @[k]]]
        /\ UNCHANGED dailyFrame

-----------------------------------------------------------------------------
(* Construction and mount *)

NoArg == [fn |-> "none", text |-> << >>]

\* The state after the first render: every useState initialiser has run
\* against the store, no effect has run yet.
Constructed ==
    /\ phase = "constructed"
    /\ installed = RestoreSources(INSTALLED_KEY)
    /\ plf = RestoreSources(PLF_KEY)
    /\ capacityCsvMissing = FALSE
    /\ capacityCsvMsg = "none"
    /\ capFetch = IdleFetch
    /\ history = << >>
    /\ historyError = "none"
    /\ historyLoadedFrom = "none"
    /\ histFetch = IdleHistFetch
    /\ startMonth = << >>
    /\ endMonth = << >>
    /\ dailyMap = RestoreDaily
    /\ dailyMsg = "none"
    /\ dailyErrors = << >>
    /\ pendingImport = NoImport
    /\ lastWrite = [daily |-> dailyMap, installed |-> installed, plf |-> plf]
    /\ fnArg = NoArg
    /\ fnRes = NoCall

\* A mount that starts the capacity fetch whatever was restored.
MountEffects_AlwaysFetch ==
    LET p1 == PersistEffect(store, INSTALLED_KEY, JSONStringify(installed))
        p2 == PersistEffect(p1.store, PLF_KEY, JSONStringify(plf))
        p3 == PersistEffect(p2.store, DAILY_KEY, JSONStringify(dailyMap))
    IN  /\ phase = "constructed"
        /\ capFetch' = [capFetch EXCEPT !.pc = "fetch", !.base = installed]
        /\ histFetch' = [histFetch EXCEPT !.pc = "fetch", !.path = 1]
        /\ historyError' = "none"
        /\ store' = p3.store
        /\ phase' = IF p1.crashed \/ p2.crashed \/ p3.crashed
                    THEN "crashed" ELSE "mounted"
        /\ UNCHANGED << isoLenient, storeReadThrows, storeWriteThrows, installed,
                        plf, capacityCsvMissing, capacityCsvMsg, history,
                        historyLoadedFrom, startMonth, endMonth, dailyMap,
                        dailyMsg, dailyErrors, pendingImport, lastWrite,
                        fnArg, fnRes >>

\* The effects of the first commit, in source order: the capacity bootstrap
\* (src 505-552, started only when every restored value is zero), the three
\* persistence effects (554-564, 757-761) and the history bootstrap (610-678,
\* up to its first await). The month effects (680-698) return at once: there
\* are no month options yet.
MountEffects ==
    LET hasNonZeroLocal == \E s \in SourceSet : installed[s] # 0
        p1 == PersistEffect(store, INSTALLED_KEY, JSONStringify(installed))
        p2 == PersistEffect(p1.store, PLF_KEY, JSONStringify(plf))
        p3 == PersistEffect(p2.store, DAILY_KEY, JSONStringify(dailyMap))
    IN  /\ phase = "constructed"
        /\ capFetch' = IF hasNonZeroLocal THEN capFetch
                       ELSE [capFetch EXCEPT !.pc = "fetch", !.base = installed]
        /\ histFetch' = [histFetch EXCEPT !.pc = "fetch", !.path = 1]
        /\ historyError' = "none"
        /\ store' = p3.store
        /\ phase' = IF p1.crashed \/ p2.crashed \/ p3.crashed
                    THEN "crashed" ELSE "mounted"
        /\ UNCHANGED << isoLenient, storeReadThrows, storeWriteThrows, installed,
                        plf, capacityCsvMissing, capacityCsvMsg, history,
                        historyLoadedFrom, startMonth, endMonth, dailyMap,
                        dailyMsg, dailyErrors, pendingImport, lastWrite,
                        fnArg, fnRes >>

-----------------------------------------------------------------------------
(* The capacity CSV: parseCSVSimple, headers and month keys *)

\* The characters of each source name, for comparison with header cells.
SourceText ==
    ("Coal" :> << "C", "o", "a", "l" >>)
    @@ ("Oil & Gas" :> << "O", "i", "l", " ", "&", " ", "G", "a", "s" >>)
    @@ ("Nuclear" :> << "N", "u", "c", "l", "e", "a", "r" >>)
    @@ ("Hydro" :> << "H", "y", "d", "r", "o" >>)
    @@ ("Solar" :> << "S", "o", "l", "a", "r" >>)
    @@ ("Wind" :> << "W", "i", "n", "d" >>)
    @@ ("Small-Hydro" :> << "S", "m", "a", "l", "l", "-", "H", "y", "d", "r", "o" >>)
    @@ ("Bio Power" :> << "B", "i", "o", " ", "P", "o", "w", "e", "r" >>)

\* The en dash and the em dash, each one character.
EnDash == "-n"
EmDash == "--"

\* src 76-103: parseLine, from position i with the cell so far, the quote
\* state and the cells already pushed.
RECURSIVE ParseLineFrom(_, _, _, _, _)
ParseLineFrom(line, i, cur, inQuotes, out) ==
    IF i > Len(line) THEN Append(out, Trim(cur))
    ELSE IF line[i] = "\"" /\ inQuotes /\ i < Len(line) /\ line[i + 1] = "\""
         THEN ParseLineFrom(line, i + 2, Append(cur, "\""), inQuotes, out)
    ELSE IF line[i] = "\"" THEN ParseLineFrom(line, i + 1, cur, ~inQuotes, out)
    ELSE IF line[i] = "," /\ ~inQuotes
         THEN ParseLineFrom(line, i + 1, << >>, inQuotes, Append(out, Trim(cur)))
    ELSE ParseLineFrom(line, i + 1, Append(cur, line[i]), inQuotes, out)

parseLine(line) == ParseLineFrom(line, 1, << >>, FALSE, << >>)

\* src 70-110
parseCSVSimple(text) ==
    TheOne({ IF lines = << >> THEN [header |-> << >>, rows |-> << >>]
             ELSE [header |-> parseLine(lines[1]),
                   rows |-> [i \in 1..(Len(lines) - 1) |-> parseLine(lines[i + 1])]] :
             lines \in { SplitLines(text) } })

\* replace(/\s+/g, " "): every run of white space becomes one space.
RECURSIVE CollapseSpaces(_)
CollapseSpaces(s) ==
    IF s = << >> THEN << >>
    ELSE IF s[1] \in WS THEN << " " >> \o CollapseSpaces(TrimStart(s))
    ELSE << s[1] >> \o CollapseSpaces(Tail(s))

\* src 178-185
normalizeHeader(h) ==
    LET c == CollapseSpaces(ToLowerCase(Trim(h)))
    IN  [i \in 1..Len(c) |-> IF c[i] \in { EnDash, EmDash } THEN "-" ELSE c[i]]

\* header.findIndex(h => h === want), 0 for -1.
FindIndex(cells, want) ==
    IF \E i \in 1..Len(cells) : cells[i] = want
    THEN CHOOSE i \in 1..Len(cells) :
             cells[i] = want /\ \A j \in 1..(i - 1) : cells[j] # want
    ELSE 0

\* /^(\d{1,2})\/(\d{4})$/
MatchesMY(t) ==
    LET p == Split(t, "/")
    IN  /\ Len(p) = 2
        /\ Len(p[1]) \in {1, 2} /\ AllDigits(p[1])
        /\ Len(p[2]) = 4 /\ AllDigits(p[2])

\* src 196-233
normalizeMonth(raw) ==
    LET t == Trim(raw)
    IN  IF t = << >> THEN Null
        ELSE IF MatchesMY(t) THEN
            LET p == Split(t, "/")
            IN  PadStart(NatToDigits(DigitsToNat(p[1])), 2, "0") \o << "/" >> \o p[2]
        ELSE IF MatchesDMY(t, "/") THEN
            LET p == Split(t, "/") IN p[2] \o << "/" >> \o p[3]
        ELSE IF MatchesDMY(t, "-") THEN
            LET p == Split(t, "-") IN p[2] \o << "/" >> \o p[3]
        ELSE IF MatchesISO(t) THEN
            LET p == Split(t, "-") IN p[2] \o << "/" >> \o p[1]
        ELSE Null

\* The month and the year of a month key as numbers: split("/").map(Number).
MonthOf(k) == NumberOf(Split(k, "/")[1]).v
YearOf(k) == IF Len(Split(k, "/")) >= 2 THEN NumberOf(Split(k, "/")[2]).v ELSE 0

\* A comparison by month first and then year.
compareMonthKey_MonthFirst(a, b) ==
    IF MonthOf(a) # MonthOf(b) THEN MonthOf(a) - MonthOf(b)
    ELSE YearOf(a) - YearOf(b)

\* src 136-142
compareMonthKey(a, b) ==
    IF YearOf(a) # YearOf(b) THEN YearOf(a) - YearOf(b)
    ELSE MonthOf(a) - MonthOf(b)

\* String(n) for an integer.
IntToString(n) == IF n < 0 THEN << "-" >> \o NatToDigits(0 - n) ELSE NatToDigits(n)

\* src 150-157: the loop of minusMonths.
RECURSIVE StepBack(_, _, _)
StepBack(m, y, left) ==
    IF left <= 0 THEN [m |-> m, y |-> y]
    ELSE IF m - 1 <= 0 THEN StepBack(12, y - 1, left - 1)
    ELSE StepBack(m - 1, y, left - 1)

\* src 144-159
minusMonths(monthKey, monthsBack) ==
    LET r == StepBack(MonthOf(monthKey) \div Scale, YearOf(monthKey) \div Scale,
                      monthsBack)
    IN  PadStart(IntToString(r.m), 2, "0") \o << "/" >> \o IntToString(r.y)

\* Array.prototype.sort(compareMonthKey) on month keys: stable, an element
\* goes before the first one that compares greater.
RECURSIVE InsertMonth(_, _)
InsertMonth(sorted, k) ==
    IF sorted = << >> THEN << k >>
    ELSE IF compareMonthKey(sorted[1], k) > 0 THEN << k >> \o sorted
    ELSE << sorted[1] >> \o InsertMonth(Tail(sorted), k)

RECURSIVE SortMonths(_)
SortMonths(s) ==
    IF s = << >> THEN << >>
    ELSE InsertMonth(SortMonths(SubSeq(s, 1, Len(s) - 1)), s[Len(s)])

\* src 652: parsed.sort((a, b) => compareMonthKey(a.month, b.month))
RECURSIVE InsertRow(_, _)
InsertRow(sorted, r) ==
    IF sorted = << >> THEN << r >>
    ELSE IF compareMonthKey(sorted[1].month, r.month) > 0 THEN << r >> \o sorted
    ELSE << sorted[1] >> \o InsertRow(Tail(sorted), r)

\* A load that keeps the rows in the order of the file.
SortRows_FileOrder(s) == s

RECURSIVE SortRows(_)
SortRows(s) ==
    IF s = << >> THEN << >>
    ELSE InsertRow(SortRows(SubSeq(s, 1, Len(s) - 1)), s[Len(s)])

\* The last element of sorted that is not after target, from position i down.
RECURSIVE LatestNotAfter(_, _, _)
LatestNotAfter(sorted, target, i) ==
    IF i < 1 THEN sorted[1]
    ELSE IF compareMonthKey(sorted[i], target) <= 0 THEN sorted[i]
    ELSE LatestNotAfter(sorted, target, i - 1)

\* A clamp that never looks for the option at or before the target.
clampMonthKeyToOptions_Earliest(target, options) ==
    IF options = << >> THEN target
    ELSE IF \E i \in 1..Len(options) : options[i] = target THEN target
    ELSE SortMonths(options)[1]

\* src 161-170
clampMonthKeyToOptions(target, options) ==
    IF options = << >> THEN target
    ELSE IF \E i \in 1..Len(options) : options[i] = target THEN target
    ELSE LET sorted == SortMonths(options)
         IN  LatestNotAfter(sorted, target, Len(sorted))

\* src 591-594
monthOptions(hist) == SortMonths([i \in 1..Len(hist) |-> hist[i].month])

\* src 596-599 (Null when there is no option)
latestMonth(hist) ==
    IF monthOptions(hist) = << >> THEN Null
    ELSE monthOptions(hist)[Len(monthOptions(hist))]

\* src 601-605
defaultStartMonth(hist) ==
    IF latestMonth(hist) = Null THEN Null
    ELSE clampMonthKeyToOptions(minusMonths(latestMonth(hist), 12), monthOptions(hist))

\* src 268-273
inputValueToMonthKey(v) ==
    LET p == Split(v, "-")
    IN  IF Len(p) = 2 /\ Len(p[1]) = 4 /\ AllDigits(p[1])
           /\ Len(p[2]) = 2 /\ AllDigits(p[2])
        THEN p[2] \o << "/" >> \o p[1] ELSE << >>

-----------------------------------------------------------------------------
(* The bootstrap fetches, teardown, and the capacity and month inputs *)

MsgCapacityNotLoaded == "Capacity.csv not loaded"
MsgHistoryNotLoaded == "capacity.csv not loaded"
MsgNoMonthRows == "found 0 valid Month rows"
HistPaths == << "/data/capacity.csv", "/data/Capacity.csv" >>

\* !txt || !txt.trim()
IsBlank(text) == \A i \in 1..Len(text) : text[i] \in WS \cup { "\n" }

\* A completion that never finds its effect cleaned up.
Stale_Never(f) == FALSE

\* The test `cancelled` of a completion (src 538, 544, 654, 664).
Stale(f) == f.cancelled

\* A load that leaves a source without a column at the value now on screen.
CapacityFromTable_KeepEdits(csv, base) ==
    LET header == csv.header
        row == IF csv.rows = << >> THEN << >> ELSE csv.rows[1]
        Has(s) == \E i \in 1..Len(header) : header[i] = SourceText[s]
        LastIdx(s) == CHOOSE i \in 1..Len(header) :
                          /\ header[i] = SourceText[s]
                          /\ \A j \in (i + 1)..Len(header) : header[j] # SourceText[s]
        Cell(s) == IF LastIdx(s) <= Len(row) THEN row[LastIdx(s)] ELSE << >>
    IN  IF header = << >> \/ csv.rows = << >> THEN [threw |-> TRUE, next |-> base]
        ELSE [threw |-> FALSE,
              next |-> [s \in SourceSet |-> IF Has(s) THEN safeNum(Cell(s)) ELSE installed[s]]]

\* src 512-536: the installed values read from the first data row of the CSV,
\* starting from the values captured at mount; thrown when there is no header
\* or no data row.
CapacityFromTable(csv, base) ==
    LET header == csv.header
        row == IF csv.rows = << >> THEN << >> ELSE csv.rows[1]
        Has(s) == \E i \in 1..Len(header) : header[i] = SourceText[s]
        LastIdx(s) == CHOOSE i \in 1..Len(header) :
                          /\ header[i] = SourceText[s]
                          /\ \A j \in (i + 1)..Len(header) : header[j] # SourceText[s]
        Cell(s) == IF LastIdx(s) <= Len(row) THEN row[LastIdx(s)] ELSE << >>
    IN  IF header = << >> \/ csv.rows = << >> THEN [threw |-> TRUE, next |-> base]
        ELSE [threw |-> FALSE,
              next |-> [s \in SourceSet |-> IF Has(s) THEN safeNum(Cell(s)) ELSE 0]]

CapacityFromCsv(text, base) ==
    TheOne({ CapacityFromTable(csv, base) : csv \in { parseCSVSimple(text) } })

\* src 624-652: the month rows of the CSV, sorted; thrown when there is no
\* header, no data row or no Month column.
RECURSIVE MonthRows(_, _, _)
MonthRows(rows, monthIdx, sourceIdx) ==
    IF rows = << >> THEN << >>
    ELSE LET row == rows[1]
             mk == normalizeMonth(IF monthIdx <= Len(row) THEN row[monthIdx] ELSE << >>)
             values == [s \in SourceSet |->
                           IF sourceIdx[s] >= 1 /\ sourceIdx[s] <= Len(row)
                           THEN safeNum(row[sourceIdx[s]]) ELSE 0]
         IN  (IF mk = Null THEN << >> ELSE << [month |-> mk, values |-> values] >>)
             \o MonthRows(Tail(rows), monthIdx, sourceIdx)

HistoryFromColumns(csv, monthIdx, sourceIdx) ==
    IF csv.header = << >> \/ csv.rows = << >> \/ monthIdx = 0
    THEN [threw |-> TRUE, parsed |-> << >>]
    ELSE [threw |-> FALSE,
          parsed |-> TheOne({ SortRows(rows) :
                              rows \in { MonthRows(csv.rows, monthIdx, sourceIdx) } })]

HistoryFromTable(csv, normHeaders) ==
    TheOne({ HistoryFromColumns(csv, monthIdx, sourceIdx) :
             monthIdx \in { FindIndex(normHeaders, << "m", "o", "n", "t", "h" >>) },
             sourceIdx \in { [s \in SourceSet |->
                                 FindIndex(normHeaders, normalizeHeader(SourceText[s]))] } })

HistoryFromCsv(text) ==
    TheOne({ HistoryFromTable(
                 csv, [i \in 1..Len(csv.header) |-> normalizeHeader(csv.header[i])]) :
             csv \in { parseCSVSimple(text) } })

\* Months that are left in the order they were chosen in.
OrderMonths_AsChosen(sm, em) == [start |-> sm, end |-> em]

\* src 693-698: a start month after the end month is pulled back to it.
OrderMonths(sm, em) ==
    IF sm # << >> /\ em # << >> /\ compareMonthKey(sm, em) > 0
    THEN [start |-> em, end |-> em] ELSE [start |-> sm, end |-> em]

\* src 680-698: the two month effects after history became hist, with the
\* start and end months sm and em; without a month option the first returns
\* at once and the second has nothing new to look at.
MonthEffects(hist, sm, em) ==
    LET opts == monthOptions(hist)
        end == latestMonth(hist)
        start == defaultStartMonth(hist)
    IN  IF opts = << >> THEN [start |-> sm, end |-> em]
        ELSE OrderMonths(IF sm # << >> THEN clampMonthKeyToOptions(sm, opts) ELSE start,
                         IF em # << >> THEN clampMonthKeyToOptions(em, opts) ELSE end)

capacityVars ==
    << installed, plf, capacityCsvMissing, capacityCsvMsg, store, lastWrite >>
historyVars == << history, historyError, historyLoadedFrom, startMonth, endMonth >>
dailyVars == << dailyMap, dailyMsg, dailyErrors, pendingImport >>
envVars == << isoLenient, storeReadThrows, storeWriteThrows, fnArg, fnRes >>

Alive == phase \in { "mounted", "unmounted" }

\* src 541-548: the catch of loadCapacitySingleRow.
CapacityFailed ==
    IF Stale(capFetch) THEN
        /\ capFetch' = [capFetch EXCEPT !.pc = "done", !.outcome = "failure dropped"]
        /\ UNCHANGED capacityVars
    ELSE
        /\ capFetch' = [capFetch EXCEPT !.pc = "done", !.outcome = "failed"]
        /\ capacityCsvMissing' = TRUE
        /\ capacityCsvMsg' = MsgCapacityNotLoaded
        /\ UNCHANGED << installed, plf, store, lastWrite >>

\* src 509-511: fetch of /data/Capacity.csv settles: rejected, or a response
\* that is ok or not.
CapacityFetchSettles(r) ==
    /\ Alive
    /\ capFetch.pc = "fetch"
    /\ IF r = "ok" THEN
           /\ capFetch' = [capFetch EXCEPT !.pc = "text"]
           /\ UNCHANGED capacityVars
       ELSE CapacityFailed
    /\ UNCHANGED << phase, historyVars, histFetch, dailyVars, envVars >>

\* src 511-548: res.text() settles, rejected or with the body; a new installed
\* object runs the persistence effect (554-558).
CapacityTextSettles(readOk, body) ==
    \E r \in { CapacityFromCsv(body, capFetch.base) } :
    LET p == PersistEffect(store, INSTALLED_KEY, JSONStringify(r.next))
    IN  /\ Alive
        /\ capFetch.pc = "text"
        /\ IF ~readOk \/ r.threw THEN CapacityFailed
           ELSE IF Stale(capFetch) THEN
               /\ capFetch' = [capFetch EXCEPT !.pc = "done", !.outcome = "result dropped"]
               /\ UNCHANGED capacityVars
           ELSE
               /\ capFetch' = [capFetch EXCEPT !.pc = "done", !.outcome = "applied"]
               /\ installed' = r.next
               /\ capacityCsvMissing' = FALSE
               /\ capacityCsvMsg' = "none"
               /\ store' = p.store
               /\ lastWrite' = [lastWrite EXCEPT !.installed = r.next]
               /\ UNCHANGED plf
        /\ phase' = IF readOk /\ ~r.threw /\ ~Stale(capFetch) /\ p.crashed
                    THEN "crashed" ELSE phase
        /\ UNCHANGED << historyVars, histFetch, dailyVars, envVars >>

\* src 663-672: the catch of loadHistory.
HistoryFailed ==
    IF Stale(histFetch) THEN
        /\ histFetch' = [histFetch EXCEPT !.pc = "done", !.outcome = "failure dropped"]
        /\ UNCHANGED historyVars
    ELSE
        /\ histFetch' = [histFetch EXCEPT !.pc = "done", !.outcome = "failed"]
        /\ history' = << >>
        /\ historyLoadedFrom' = "none"
        /\ historyError' = MsgHistoryNotLoaded
        /\ UNCHANGED << startMonth, endMonth >>

\* src 237-254: fetchTextWithFallback goes on to the next path, and throws
\* after the last.
NextPathOrThrow ==
    IF histFetch.path < Len(HistPaths) THEN
        /\ histFetch' = [histFetch EXCEPT !.pc = "fetch", !.path = @ + 1]
        /\ UNCHANGED historyVars
    ELSE HistoryFailed

\* src 239-243: the fetch of the current path settles.
HistoryFetchSettles(r) ==
    /\ Alive
    /\ histFetch.pc = "fetch"
    /\ IF r = "ok" THEN
           /\ histFetch' = [histFetch EXCEPT !.pc = "text"]
           /\ UNCHANGED historyVars
       ELSE NextPathOrThrow
    /\ UNCHANGED << phase, capacityVars, capFetch, dailyVars, envVars >>

\* src 244-252, 624-672: res.text() of the current path settles, rejected or
\* with the body; a body that is not blank is parsed and ends the load.
HistoryTextSettles(readOk, body) ==
    \E r \in { HistoryFromCsv(body) } :
    LET me == MonthEffects(r.parsed, startMonth, endMonth)
    IN  /\ Alive
        /\ histFetch.pc = "text"
        /\ IF ~readOk \/ IsBlank(body) THEN NextPathOrThrow
           ELSE IF r.threw THEN HistoryFailed
           ELSE IF Stale(histFetch) THEN
               /\ histFetch' = [histFetch EXCEPT !.pc = "done", !.outcome = "result dropped"]
               /\ UNCHANGED historyVars
           ELSE
               /\ histFetch' = [histFetch EXCEPT !.pc = "done", !.outcome = "applied"]
               /\ history' = r.parsed
               /\ historyLoadedFrom' = HistPaths[histFetch.path]
               /\ historyError' = IF r.parsed # << >> THEN "none" ELSE MsgNoMonthRows
               /\ startMonth' = me.start
               /\ endMonth' = me.end
        /\ UNCHANGED << phase, capacityVars, capFetch, dailyVars, envVars >>

\* The component is torn down: the cleanups of the two bootstrap effects run
\* (src 550-552, 675-677).
Unmount ==
    /\ phase = "mounted"
    /\ phase' = "unmounted"
    /\ capFetch' = [capFetch EXCEPT !.cancelled = TRUE]
    /\ histFetch' = [histFetch EXCEPT !.cancelled = TRUE]
    /\ UNCHANGED << capacityVars, historyVars, dailyVars, envVars >>

\* src 984-987: onChange of the installed input of source s.
installedOnChange(s, text) ==
    LET next == [installed EXCEPT ![s] = safeNum(text)]
        p == PersistEffect(store, INSTALLED_KEY, JSONStringify(next))
    IN  /\ phase = "mounted"
        /\ installed' = next
        /\ store' = p.store
        /\ phase' = IF p.crashed THEN "crashed" ELSE phase
        /\ lastWrite' = [lastWrite EXCEPT !.installed[s] = safeNum(text)]
        /\ UNCHANGED << plf, capacityCsvMissing, capacityCsvMsg, capFetch,
                        historyVars, histFetch, dailyVars, envVars >>

\* src 1007-1010: onChange of the PLF input of source s.
plfOnChange(s, text) ==
    LET next == [plf EXCEPT ![s] = safeNum(text)]
        p == PersistEffect(store, PLF_KEY, JSONStringify(next))
    IN  /\ phase = "mounted"
        /\ plf' = next
        /\ store' = p.store
        /\ phase' = IF p.crashed THEN "crashed" ELSE phase
        /\ lastWrite' = [lastWrite EXCEPT !.plf[s] = safeNum(text)]
        /\ UNCHANGED << installed, capacityCsvMissing, capacityCsvMsg, capFetch,
                        historyVars, histFetch, dailyVars, envVars >>

\* src 1053-1058 and 693-698: onChange of the start month picker.
startMonthOnChange(v) ==
    LET mk == inputValueToMonthKey(v)
        sm == IF mk = << >> THEN startMonth
              ELSE clampMonthKeyToOptions(mk, monthOptions(history))
    IN  /\ phase = "mounted"
        /\ startMonth' = OrderMonths(sm, endMonth).start
        /\ UNCHANGED << endMonth, history, historyError, historyLoadedFrom,
                        histFetch, phase, capacityVars, capFetch,
                        dailyVars, envVars >>

\* src 1068-1072 and 693-698: onChange of the end month picker.
endMonthOnChange(v) ==
    LET mk == inputValueToMonthKey(v)
        em == IF mk = << >> THEN endMonth
              ELSE clampMonthKeyToOptions(mk, monthOptions(history))
    IN  /\ phase = "mounted"
        /\ endMonth' = em
        /\ startMonth' = OrderMonths(startMonth, em).start
        /\ UNCHANGED << history, historyError, historyLoadedFrom,
                        histFetch, phase, capacityVars, capFetch,
                        dailyVars, envVars >>

-----------------------------------------------------------------------------
(* SpecDaily: the daily card, from a stored daily item on *)

Key1 == IsoText(18, 12, 2025)
Key2 == IsoText(29, 2, 2024)

\* What the daily key of the store holds when the component is constructed.
DailyStoreItems ==
    { Absent,
      Corrupt,
      JsonObject(Key1 :> << "5" >>),
      JsonObject((Key1 :> << "x" >>) @@ (Key2 :> << "7" >>)
                 @@ (SlashText(18, 12, 2025) :> << "5" >>)) }

\* What is typed into the date box and the value box before Save.
UpsertDateTexts ==
    { SlashText(18, 12, 2025), SlashText(31, 12, 500), IsoText(31, 12, 500),
      IsoText(31, 2, 2024), DashText(31, 2, 2024) }
UpsertValueTexts == { << "5" >>, << "x" >>, << >> }

\* The files chosen for import: the example of the specification, one date
\* named by two rows, and a file without a valid row.
TwoRowsOneDateCsv ==
    Join(<< SlashText(18, 12, 2025) \o << ",", "7", ".", "2", "5" >>,
            IsoText(18, 12, 2025) \o << ",", "5" >> >>, "\n")
ImportTexts == { ExampleCsv, TwoRowsOneDateCsv, << "b", "a", "d", ",", "o", "o", "p", "s" >> }

InitDaily ==
    /\ isoLenient \in BOOLEAN
    /\ storeReadThrows = FALSE
    /\ storeWriteThrows = FALSE
    /\ store \in { [k \in StoreKeys |-> IF k = DAILY_KEY THEN it ELSE Absent] :
                   it \in DailyStoreItems }
    /\ Constructed

NextDaily ==
    \/ MountEffects
    \/ \E d \in UpsertDateTexts, v \in UpsertValueTexts : upsertDaily(d, v)
    \/ \E k \in DOMAIN dailyMap : removeDaily(k)
    \/ \E c \in BOOLEAN : clearDaily(c)
    \/ \E f \in BOOLEAN, t \in ImportTexts : importDailyCSV_start(f, t)
    \/ \E ok \in BOOLEAN : importDailyCSV_settle(ok)

SpecDaily == InitDaily /\ [][NextDaily]_vars

-----------------------------------------------------------------------------
(* Properties of the daily records, under SpecDaily *)

\* C2: in every reachable state every key of the daily-record map is a
\* canonical YYYY-MM-DD string of a real calendar date, whatever restore, save,
\* import, remove and clear produced the map.
C2_KeysCanonical == \A k \in DOMAIN dailyMap : IsCanonicalKey(k)

\* The calendar date a key of the map denotes, as << year, month, day >>.
KeyDate(k) ==
    LET p == Split(k, "-")
    IN  << DigitsToNat(p[1]), DigitsToNat(p[2]), DigitsToNat(p[3]) >>

\* C5: the daily records are a mapping with one value per date and the last
\* write wins: the value stored for a date is the value of the most recent save
\* or imported row that named it (a later row of one CSV overriding an earlier
\* one, an import overriding what is stored), a date no write named keeps its
\* value, and no date has two records.
C5_LastWriteWins ==
    /\ dailyMap = lastWrite.daily
    /\ \A k1, k2 \in DOMAIN dailyMap : KeyDate(k1) = KeyDate(k2) => k1 = k2

\* The map an exported text gives when imported into an empty map.
Reimported(text) == mergeRecords(EmptyMap, csvParseDaily(text).parsed)

\* C6: for every reachable daily-record map M, the text exportDailyCSV writes,
\* parsed by csvParseDaily and merged into an empty map, is exactly M, and the
\* parse reports no error.
C6_ExportImportRoundTrip ==
    /\ csvParseDaily(exportDailyCSV(dailyMap)).errors = << >>
    /\ Reimported(exportDailyCSV(dailyMap)) = dailyMap

\* Year, month and day of a DD/MM/YYYY text as one number that orders dates.
DateRank(t) == FieldsOf(t).y * 10000 + FieldsOf(t).m * 100 + FieldsOf(t).d

\* C7: the exported CSV is the header line date,RatedCapacity_GW followed by
\* exactly one line per stored record, in strictly ascending date order, each
\* date written as DD/MM/YYYY.
C7_ExportFormat ==
    LET lines == Split(exportDailyCSV(dailyMap), "\n")
        DateOf(i) == Split(lines[i], ",")[1]
        ValueOf(i) == Split(lines[i], ",")[2]
    IN  /\ Len(lines) = 1 + Cardinality(DOMAIN dailyMap)
        /\ lines[1] = << "d", "a", "t", "e", "," >> \o DAILY_VALUE_COL
        /\ \A i \in 2..Len(lines) :
               /\ MatchesDMY(DateOf(i), "/")
               /\ LET f == FieldsOf(DateOf(i))
                      k == IsoText(f.d, f.m, f.y)
                  IN  /\ k \in DOMAIN dailyMap
                      /\ NumberOf(ValueOf(i)) = Fin(dailyMap[k])
               /\ i > 2 => (/\ MatchesDMY(DateOf(i - 1), "/")
                            /\ DateRank(DateOf(i - 1)) < DateRank(DateOf(i)))

\* C9: once the effects have run and while the store accepts writes, each of
\* the three keys holds the serialization of the installed map, the PLF map
\* and the daily-record map, and restoring from the store gives back the same
\* three values.
C9_StoreMirrorsState ==
    (phase = "mounted" /\ ~storeWriteThrows /\ ~storeReadThrows) =>
        /\ store[INSTALLED_KEY] = JSONStringify(installed)
        /\ store[PLF_KEY] = JSONStringify(plf)
        /\ store[DAILY_KEY] = JSONStringify(dailyMap)
        /\ RestoreSources(INSTALLED_KEY) = installed
        /\ RestoreSources(PLF_KEY) = plf
        /\ RestoreDaily = dailyMap

-----------------------------------------------------------------------------
(* SpecBoot: the two bootstrap fetches against teardown and the inputs *)

\* A history file: two month rows out of order, one of them with a cell that is
\* not a number, and a row without a month.
CsvHistory ==
    << "M", "o", "n", "t", "h", ",", "C", "o", "a", "l", ",", "S", "o",
       "l", "a", "r", "\n", "0", "1", "/", "2", "0", "2", "4", ",", "5",
       ",", "7", "\n", "1", "2", "/", "2", "0", "2", "3", ",", "4", ",",
       "x", "\n", "b", "a", "d", ",", "1", ",", "1" >>

\* A single-row capacity file without a Month column.
CsvSingleRow ==
    << "C", "o", "a", "l", ",", "W", "i", "n", "d", "\n", "3", ",", "2",
       ".", "5" >>

\* A header and no data row.
CsvHeaderOnly ==
    << "M", "o", "n", "t", "h", ",", "C", "o", "a", "l" >>

\* A body of white space.
CsvBlank ==
    << " ", "\n" >>

\* A Month column and no parseable month.
CsvNoMonths ==
    << "m", "o", "n", "t", "h", "\n", "b", "a", "d" >>

\* Quoted cells, a header in another case, months written M/YYYY.
CsvQuoted ==
    << "\"", "O", "i", "l", " ", "&", " ", "G", "a", "s", "\"", ",", " ",
       "M", "O", "N", "T", "H", " ", "\n", "\"", "1", ",", "5", "\"", ",",
       "2", "/", "2", "0", "2", "4", "\n", "7", ",", "1", "3", "/", "2",
       "0", "2", "4" >>

\* The bodies a response can carry.
BootBodies ==
    { CsvHistory, CsvSingleRow, CsvHeaderOnly, CsvBlank, CsvNoMonths, CsvQuoted }

\* How a fetch settles: rejected, a response that is not ok, one that is.
FetchResults == { "reject", "notok", "ok" }

\* What is typed into an installed or PLF input, and the values of a month picker.
SourceInputs == { << "5" >>, << "x" >> }
MonthInputs ==
    { << "2", "0", "2", "4", "-", "0", "1" >>,
      << "2", "0", "2", "3", "-", "0", "6" >>,
      << >> }

\* The installed item of the store at construction: none, or one with a
\* non-zero value, which keeps the capacity fetch from starting.
BootInstalledItems == { Absent, JsonObject("Coal" :> << "5" >>) }

InitBoot ==
    /\ isoLenient = FALSE
    /\ storeReadThrows = FALSE
    /\ storeWriteThrows = FALSE
    /\ store \in { [k \in StoreKeys |-> IF k = INSTALLED_KEY THEN it ELSE Absent] :
                   it \in BootInstalledItems }
    /\ Constructed

NextBoot ==
    \/ MountEffects
    \/ \E r \in FetchResults : CapacityFetchSettles(r)
    \/ \E ok \in BOOLEAN, b \in BootBodies : CapacityTextSettles(ok, b)
    \/ \E r \in FetchResults : HistoryFetchSettles(r)
    \/ \E ok \in BOOLEAN, b \in BootBodies : HistoryTextSettles(ok, b)
    \/ Unmount
    \/ \E t \in SourceInputs : installedOnChange("Coal", t)
    \/ \E t \in SourceInputs : plfOnChange("Coal", t)
    \/ \E v \in MonthInputs : startMonthOnChange(v)
    \/ \E v \in MonthInputs : endMonthOnChange(v)

SpecBoot == InitBoot /\ [][NextBoot]_vars

-----------------------------------------------------------------------------
(* Properties of the bootstrap fetches, under SpecBoot *)

\* C8: once the component has been torn down, the completion of an in-flight
\* bootstrap fetch, successful or failed, changes none of installed capacity,
\* the capacity warning flag and message, history, the loaded-from path and
\* the history error.
C8_NoUpdateAfterTeardown ==
    [][phase = "unmounted" =>
           UNCHANGED << installed, capacityCsvMissing, capacityCsvMsg,
                        history, historyLoadedFrom, historyError >>]_vars

\* C8 witness: both fetches settled after the teardown, the capacity fetch with
\* a usable row and the history fetch with a failure, and both were dropped.
C8_Witness ==
    /\ phase = "unmounted"
    /\ capFetch.outcome = "result dropped"
    /\ histFetch.outcome = "failure dropped"

-----------------------------------------------------------------------------
(* SpecStore: construction, mount and mutations over a store that may hold
   anything and may throw *)

\* What each key of the store holds at construction: nothing, text that is
\* not JSON, or an object.
StoreItems ==
    [k \in StoreKeys |->
        { Absent, Corrupt } \cup
        (IF k = DAILY_KEY THEN { JsonObject(Key1 :> << "5" >>) }
         ELSE { JsonObject(("Coal" :> << "5" >>) @@ ("Solar" :> << "x" >>)) })]

InitStore ==
    /\ isoLenient = FALSE
    /\ storeReadThrows \in BOOLEAN
    /\ storeWriteThrows \in BOOLEAN
    /\ store \in [StoreKeys -> UNION { StoreItems[k] : k \in StoreKeys }]
    /\ \A k \in StoreKeys : store[k] \in StoreItems[k]
    /\ Constructed

NextStore ==
    \/ MountEffects
    \/ \E r \in { "reject", "ok" } : CapacityFetchSettles(r)
    \/ CapacityTextSettles(TRUE, CsvSingleRow)
    \/ \E t \in SourceInputs : installedOnChange("Coal", t)
    \/ \E t \in SourceInputs : plfOnChange("Solar", t)
    \/ \E v \in UpsertValueTexts : upsertDaily(SlashText(29, 2, 2024), v)
    \/ \E k \in DOMAIN dailyMap : removeDaily(k)
    \/ clearDaily(TRUE)

SpecStore == InitStore /\ [][NextStore]_vars

-----------------------------------------------------------------------------
(* Properties of the storage failures, under SpecStore *)

\* A key whose stored value cannot be used at construction.
Unreadable(k) == storeReadThrows \/ store[k].kind \in { "absent", "corrupt" }

\* C10: storage failures fail neither initialization nor a mutation. When the
\* stored value of a key is absent or not parseable JSON, or the store throws
\* on read, installed capacity and PLF start as zero for all eight sources and
\* the daily records start empty; when the store throws on write, the state in
\* memory is still what the latest mutation made it; and no error state is
\* ever entered.
C10_StorageFailuresTolerated ==
    /\ phase # "crashed"
    /\ phase = "constructed" =>
           /\ Unreadable(INSTALLED_KEY) => installed = ZeroSources
           /\ Unreadable(PLF_KEY) => plf = ZeroSources
           /\ Unreadable(DAILY_KEY) => dailyMap = EmptyMap
    /\ storeWriteThrows =>
           /\ installed = lastWrite.installed
           /\ plf = lastWrite.plf
           /\ dailyMap = lastWrite.daily

\* C10 witness: over a store that throws on read and on write, the component
\* started from the defaults, has been mounted, and a save, a capacity edit
\* and a PLF edit are in memory while the store still holds what it held.
C10_Witness ==
    /\ storeReadThrows /\ storeWriteThrows
    /\ phase = "mounted"
    /\ store[DAILY_KEY] = JsonObject(Key1 :> << "5" >>)
    /\ dailyMap = (Key2 :> 5 * Scale)
    /\ dailyMsg = "Saved"
    /\ installed["Coal"] = 5 * Scale
    /\ plf["Solar"] = 5 * Scale

-----------------------------------------------------------------------------
(* Properties of the manual save, under SpecDaily *)

\* A text that spells a real calendar date in one of the three shapes.
ValidDateText(d) ==
    /\ HasDateShape(Trim(d))
    /\ RealDate(FieldsOf(Trim(d)).y, FieldsOf(Trim(d)).m, FieldsOf(Trim(d)).d)

\* A text that spells a number, thousands separators allowed: not empty, and
\* a decimal literal once the commas are taken out.
NumberText(v) ==
    /\ Trim(StripCommas(v)) # << >>
    /\ NumberOf(StripCommas(v)).fin

\* C11: a manual save whose date text is not a valid date or whose value text
\* is not a number is blocked with no partial effect: the daily-record map is
\* left exactly as it was and an inline error message is set.
C11_InvalidSaveBlocked ==
    [][\A d \in UpsertDateTexts, v \in UpsertValueTexts :
           (upsertDaily(d, v) /\ (~ValidDateText(d) \/ ~NumberText(v)))
               => (dailyMap' = dailyMap /\ dailyErrors' # << >>)]_vars

-----------------------------------------------------------------------------
(* Properties of the capacity bootstrap, under SpecBoot *)

\* A body that is not a usable capacity CSV: empty, without a data row, or
\* with a header that has none of the eight source columns.
MalformedCapacityCsv(body) ==
    \E csv \in { parseCSVSimple(body) } :
        \/ csv.header = << >>
        \/ csv.rows = << >>
        \/ \A s \in SourceSet : \A i \in 1..Len(csv.header) : csv.header[i] # SourceText[s]

\* A step in which the capacity load fails while the component is mounted.
CapacityLoadFails ==
    /\ phase = "mounted"
    /\ \/ \E r \in { "reject", "notok" } : CapacityFetchSettles(r)
       \/ \E b \in BootBodies : CapacityTextSettles(FALSE, b)
       \/ \E b \in BootBodies : MalformedCapacityCsv(b) /\ CapacityTextSettles(TRUE, b)

\* C12: when the installed-capacity bootstrap load fails while the component
\* is mounted (fetch error, non-OK status, empty body, no data row, or a header
\* with none of the eight source columns), the capacity warning is set and
\* stays set, and installed capacity remains as it was, at zero.
C12_CapacityLoadFailureWarns ==
    [][/\ CapacityLoadFails =>
              /\ capacityCsvMissing' = TRUE
              /\ capacityCsvMsg' = MsgCapacityNotLoaded
              /\ installed' = installed
       /\ (capacityCsvMissing /\ capFetch.outcome = "failed") =>
              (capacityCsvMissing' /\ capacityCsvMsg' = MsgCapacityNotLoaded)]_vars

-----------------------------------------------------------------------------
(* SpecMonth: the month-key helpers applied to an input *)

\* Options in a list handed to clampMonthKeyToOptions, months a minusMonths
\* call goes back.
MaxOptions == 3
MaxMonthsBack == 30

\* The month key MM/YYYY of month m of year y.
MonthKey(m, y) == D2(m) \o << "/" >> \o D4(y)

\* Keys to clamp and to clamp to: the examples of the specification and keys
\* around them.
ClampKeys ==
    { MonthKey(1, 2024), MonthKey(4, 2024), MonthKey(6, 2024), MonthKey(9, 2024),
      MonthKey(12, 2020), MonthKey(12, 2023) }

\* Keys to go back from and keys to compare: the turn of a year, of a century
\* and of the year 1000.
CalendarKeys ==
    { MonthKey(m, y) : m \in {1, 3, 5, 12}, y \in {1000, 2023, 2024} }

NoMonthArg == [fn |-> "none", a |-> << >>, b |-> << >>, n |-> 0, opts |-> << >>]

InitMonth ==
    /\ isoLenient = FALSE
    /\ ComponentAtRest
    /\ fnArg \in
           { [NoMonthArg EXCEPT !.fn = "clampMonthKeyToOptions", !.a = t, !.opts = o] :
                 t \in ClampKeys,
                 o \in UNION { [1..len -> ClampKeys] : len \in 1..MaxOptions } }
           \cup { [NoMonthArg EXCEPT !.fn = "minusMonths", !.a = k, !.n = n] :
                      k \in CalendarKeys, n \in 0..MaxMonthsBack }
           \cup { [NoMonthArg EXCEPT !.fn = "compareMonthKey", !.a = k1, !.b = k2] :
                      k1 \in CalendarKeys, k2 \in CalendarKeys }
    /\ fnRes = NoCall

CallClampMonthKeyToOptions ==
    /\ fnRes.fn = "none"
    /\ fnArg.fn = "clampMonthKeyToOptions"
    /\ fnRes' = [fn |-> fnArg.fn, out |-> clampMonthKeyToOptions(fnArg.a, fnArg.opts)]
    /\ UNCHANGED << isoLenient, componentVars, fnArg >>

CallMinusMonths ==
    /\ fnRes.fn = "none"
    /\ fnArg.fn = "minusMonths"
    /\ fnRes' = [fn |-> fnArg.fn, out |-> minusMonths(fnArg.a, fnArg.n)]
    /\ UNCHANGED << isoLenient, componentVars, fnArg >>

CallCompareMonthKey ==
    /\ fnRes.fn = "none"
    /\ fnArg.fn = "compareMonthKey"
    /\ fnRes' = [fn |-> fnArg.fn, out |-> compareMonthKey(fnArg.a, fnArg.b)]
    /\ UNCHANGED << isoLenient, componentVars, fnArg >>

NextMonth == CallClampMonthKeyToOptions \/ CallMinusMonths \/ CallCompareMonthKey

SpecMonth == InitMonth /\ [][NextMonth]_vars

-----------------------------------------------------------------------------
(* Properties of the month-key helpers, under SpecMonth *)

\* The month and the year a key MM/YYYY spells, and its place in the calendar.
KeyMonth(k) == DigitsToNat(SubSeq(k, 1, 2))
KeyYear(k) == DigitsToNat(SubSeq(k, 4, Len(k)))
MonthIndex(k) == KeyYear(k) * 12 + KeyMonth(k) - 1

\* A canonical month key: MM/YYYY with the month in 01..12.
IsCanonicalMonthKey(k) ==
    /\ Len(k) = 7
    /\ k[3] = "/"
    /\ AllDigits(SubSeq(k, 1, 2)) /\ AllDigits(SubSeq(k, 4, 7))
    /\ KeyMonth(k) \in 1..12

\* C13: clampMonthKeyToOptions(target, options), for non-empty options, returns
\* target when target is in options; otherwise the latest option that is at
\* or before target in (year, month) order; otherwise, when every option is
\* after target, the earliest option. The result is always one of the options.
C13_ClampToOptions ==
    fnRes.fn = "clampMonthKeyToOptions" =>
        LET target == fnArg.a
            options == { fnArg.opts[i] : i \in 1..Len(fnArg.opts) }
            notAfter == { o \in options : MonthIndex(o) <= MonthIndex(target) }
        IN  /\ fnRes.out \in options
            /\ target \in options => fnRes.out = target
            /\ (target \notin options /\ notAfter # {}) =>
                   /\ fnRes.out \in notAfter
                   /\ \A o \in notAfter : MonthIndex(o) <= MonthIndex(fnRes.out)
            /\ notAfter = {} =>
                   \A o \in options : MonthIndex(fnRes.out) <= MonthIndex(o)
            /\ (target = MonthKey(6, 2024)
                /\ fnArg.opts = << MonthKey(1, 2024), MonthKey(4, 2024), MonthKey(9, 2024) >>)
                   => fnRes.out = MonthKey(4, 2024)
            /\ (target = MonthKey(12, 2020) /\ fnArg.opts = << MonthKey(1, 2024) >>)
                   => fnRes.out = MonthKey(1, 2024)

\* C13 witness: the first example of the specification has been clamped, with
\* the options in another order than the calendar's.
C13_Witness ==
    /\ fnRes.fn = "clampMonthKeyToOptions"
    /\ fnArg.a = MonthKey(6, 2024)
    /\ fnArg.opts = << MonthKey(9, 2024), MonthKey(1, 2024), MonthKey(4, 2024) >>
    /\ fnRes.out = MonthKey(4, 2024)

\* C14: minusMonths(key, n), for a canonical MM/YYYY key and every n >= 0,
\* returns the canonical key of the month exactly n months earlier: the month
\* count year * 12 + month - 1 decreases by n, the month stays in 01..12 and
\* zero-padded, and going back a + b months is going back a and then b.
\* minusMonths(03/2024, 5) = 10/2023.
C14_MinusMonthsExact ==
    fnRes.fn = "minusMonths" =>
        /\ IsCanonicalMonthKey(fnRes.out)
        /\ MonthIndex(fnRes.out) = MonthIndex(fnArg.a) - fnArg.n
        /\ \A a \in 0..fnArg.n :
               minusMonths(minusMonths(fnArg.a, a), fnArg.n - a) = fnRes.out
        /\ (fnArg.a = MonthKey(3, 2024) /\ fnArg.n = 5) => fnRes.out = MonthKey(10, 2023)

\* C15: compareMonthKey orders month keys by year first and then month, and is
\* a total order on canonical MM/YYYY keys: 0 exactly for equal keys,
\* antisymmetric, transitive; compareMonthKey(01/2024, 12/2023) > 0 and
\* compareMonthKey(05/2024, 05/2024) = 0.
C15_CompareIsTotalOrder ==
    fnRes.fn = "compareMonthKey" =>
        LET a == fnArg.a
            b == fnArg.b
        IN  /\ (fnRes.out = 0) <=> (a = b)
            /\ (fnRes.out > 0) <=>
                   (\/ KeyYear(a) > KeyYear(b)
                    \/ KeyYear(a) = KeyYear(b) /\ KeyMonth(a) > KeyMonth(b))
            /\ (fnRes.out > 0) <=> (compareMonthKey(b, a) < 0)
            /\ \A c \in CalendarKeys :
                   (fnRes.out <= 0 /\ compareMonthKey(b, c) <= 0)
                       => compareMonthKey(a, c) <= 0
            /\ (a = MonthKey(1, 2024) /\ b = MonthKey(12, 2023)) => fnRes.out > 0
            /\ (a = MonthKey(5, 2024) /\ b = MonthKey(5, 2024)) => fnRes.out = 0

\* C15 witness: January 2024 has been compared with December 2023 and found
\* later, although its month number is smaller.
C15_Witness ==
    /\ fnRes.fn = "compareMonthKey"
    /\ fnArg.a = MonthKey(1, 2024)
    /\ fnArg.b = MonthKey(12, 2023)
    /\ fnRes.out > 0

-----------------------------------------------------------------------------
(* Properties of the loaded history, under SpecBoot *)

\* C16: every month key held in the loaded history, and so every month option
\* and every start or end month selected, is in canonical MM/YYYY form with the
\* month in 01..12; a month cell that does not denote such a month is dropped.
C16_MonthKeysCanonical ==
    /\ \A i \in 1..Len(history) : IsCanonicalMonthKey(history[i].month)
    /\ \A i \in 1..Len(monthOptions(history)) :
           IsCanonicalMonthKey(monthOptions(history)[i])
    /\ startMonth # << >> => IsCanonicalMonthKey(startMonth)
    /\ endMonth # << >> => IsCanonicalMonthKey(endMonth)

\* A month cell the month rules accept: M/YYYY, MM/YYYY, DD/MM/YYYY,
\* DD-MM-YYYY or YYYY-MM-DD.
MonthCellParseable(cell) ==
    \/ MatchesMY(Trim(cell))
    \/ MatchesDMY(Trim(cell), "/")
    \/ MatchesDMY(Trim(cell), "-")
    \/ MatchesISO(Trim(cell))

\* Cell i of a row, empty when the row is shorter or there is no such column.
CellOf(row, i) == IF i >= 1 /\ i <= Len(row) THEN row[i] ELSE << >>

\* h holds exactly the data rows of the table whose month cell is parseable:
\* the rows of h and those data rows match one to one, month and values.
HoldsParseableRows(h, csv) ==
    LET norm == [i \in 1..Len(csv.header) |-> normalizeHeader(csv.header[i])]
        monthIdx == FindIndex(norm, << "m", "o", "n", "t", "h" >>)
        kept == { j \in 1..Len(csv.rows) :
                     MonthCellParseable(CellOf(csv.rows[j], monthIdx)) }
    IN  /\ Len(h) = Cardinality(kept)
        /\ \E f \in [1..Len(h) -> kept] :
               /\ \A i1, i2 \in 1..Len(h) : f[i1] = f[i2] => i1 = i2
               /\ \A i \in 1..Len(h) :
                      /\ h[i].month = normalizeMonth(CellOf(csv.rows[f[i]], monthIdx))
                      /\ \A s \in SourceSet :
                             h[i].values[s] =
                                 safeNum(CellOf(csv.rows[f[i]],
                                                FindIndex(norm, normalizeHeader(SourceText[s]))))

\* The rows of h are in ascending order of year and then month.
AscendingMonths(h) ==
    \A i \in 1..(Len(h) - 1) :
        \/ KeyYear(h[i].month) < KeyYear(h[i + 1].month)
        \/ /\ KeyYear(h[i].month) = KeyYear(h[i + 1].month)
           /\ KeyMonth(h[i].month) <= KeyMonth(h[i + 1].month)

-----------------------------------------------------------------------------
(* Rated capacity: rounding and the derived figures of the top card *)

\* One hundredth, in the units numbers are held in.
Hundredth == Scale \div 100

\* An exact number counted in hundredths: w + n / d hundredths, 0 <= n < d.
\* A held number n:
Exact(n) == [w |-> n \div Hundredth, n |-> n % Hundredth, d |-> Hundredth]

\* installed * (plf / 100) of two held numbers a and b, exactly: a * b / Scale^2
\* hundredths, computed by parts so that no intermediate product is large.
Product(a, b) ==
    LET a1 == a \div Scale
        a0 == a % Scale
        b1 == b \div Scale
        b0 == b % Scale
        c == a1 * b0 + a0 * b1
        e == (c % Scale) * Scale + a0 * b0
    IN  [w |-> a1 * b1 + (c \div Scale) + (e \div (Scale * Scale)),
         n |-> e % (Scale * Scale),
         d |-> Scale * Scale]

\* src 55-57: Math.round(n * 100) / 100, where Math.round(x) is floor(x + 0.5):
\* a fraction of one half or more goes to the next hundredth above.
round2(x) == (x.w + (IF 2 * x.n >= x.d THEN 1 ELSE 0)) * Hundredth

\* src 66-68: keys.reduce((acc, k) => acc + safeNum(obj[k]), 0), from key i on.
RECURSIVE SumFrom(_, _, _)
SumFrom(obj, keys, i) ==
    IF i > Len(keys) THEN 0 ELSE obj[keys[i]] + SumFrom(obj, keys, i + 1)

sumSources(obj, keys) == SumFrom(obj, keys, 1)

\* src 570-576
ratedBySource ==
    [s \in SourceSet |-> round2(Product(installed[s], plf[s]))]

\* src 578-580
ratedTotal == sumSources(ratedBySource, SOURCES)

\* src 566-568
installedTotal == sumSources(installed, SOURCES)

(* SpecRated: the two rows of inputs of the top card *)

RatedSources == { "Coal", "Solar" }
RatedInputs ==
    { << "1", "0", "0" >>, << "8", "0" >>, << "0", ".", "5" >>, << "1" >>,
      << "-", "0", ".", "5" >>, << "x" >> }

InitRated ==
    /\ isoLenient = FALSE
    /\ storeReadThrows = FALSE
    /\ storeWriteThrows = FALSE
    /\ store \in { [k \in StoreKeys |-> IF k = PLF_KEY THEN item ELSE Absent] :
                     item \in { Absent, JsonObject("Coal" :> << "8", "0" >>) } }
    /\ Constructed

NextRated ==
    \/ MountEffects
    \/ \E s \in RatedSources, t \in RatedInputs : installedOnChange(s, t)
    \/ \E s \in RatedSources, t \in RatedInputs : plfOnChange(s, t)

SpecRated == InitRated /\ [][NextRated]_vars

\* x to the nearest hundredth, a tie going to the hundredth of larger magnitude.
HalfAwayFromZeroExact(x) ==
    (x.w + (IF (x.w >= 0 /\ 2 * x.n >= x.d) \/ (x.w < 0 /\ 2 * x.n > x.d)
            THEN 1 ELSE 0)) * Hundredth

\* The sum of f over the set S.
RECURSIVE SetSum(_, _)
SetSum(f, S) ==
    IF S = {} THEN 0
    ELSE LET x == CHOOSE y \in S : TRUE IN f[x] + SetSum(f, S \ { x })

\* C18: the rated value of each source is installed * PLF / 100 rounded to two
\* decimals, ties away from zero, and the rated total is the sum of those
\* rounded values (installed 100 at PLF 80 gives 80.00).
C18_RatedTotalSumsRounded ==
    /\ \A s \in SourceSet :
           /\ ratedBySource[s] = HalfAwayFromZeroExact(Product(installed[s], plf[s]))
           /\ (installed[s] = 100 * Scale /\ plf[s] = 80 * Scale)
                  => ratedBySource[s] = 80 * Scale
    /\ ratedTotal = SetSum(ratedBySource, SourceSet)

(* SpecRound: round2 applied to numbers of up to three decimals *)

MaxThousandths == 130
Round2Inputs == { k * (Scale \div 1000) : k \in (-MaxThousandths)..MaxThousandths }

InitRound ==
    /\ isoLenient = FALSE
    /\ ComponentAtRest
    /\ fnArg \in { [fn |-> "round2", n |-> v] : v \in Round2Inputs }
    /\ fnRes = NoCall

CallRound2 ==
    /\ fnArg.fn = "round2"
    /\ fnRes.fn = "none"
    /\ fnRes' = [fn |-> "round2", out |-> round2(Exact(fnArg.n))]
    /\ UNCHANGED << fnArg, componentVars, isoLenient >>

NextRound == CallRound2

SpecRound == InitRound /\ [][NextRound]_vars

Abs(n) == IF n < 0 THEN -n ELSE n

\* n to the nearest hundredth, a tie going to the hundredth of larger magnitude.
HalfAwayFromZero(n) ==
    (IF n < 0 THEN -1 ELSE 1)
        * ((2 * Abs(n) + Hundredth) \div (2 * Hundredth)) * Hundredth

\* C19: round2 rounds to two decimals with ties going away from zero, for
\* negative numbers as for positive ones: round2(-0.125) = -0.13 as
\* round2(0.125) = 0.13.
C19_Round2HalfAwayFromZero ==
    fnRes.fn = "round2" => fnRes.out = HalfAwayFromZero(fnArg.n)

-----------------------------------------------------------------------------
(* Net additions between the start month and the end month *)

\* src 700-703, 705-708: history.find(r => r.month === month) || null, as a
\* sequence of no row or one row.
FindRow(month) ==
    IF month = << >> \/ \A i \in 1..Len(history) : history[i].month # month
    THEN << >>
    ELSE << history[CHOOSE i \in 1..Len(history) :
                        /\ history[i].month = month
                        /\ \A j \in 1..(i - 1) : history[j].month # month] >>

startRow == FindRow(startMonth)
endRow == FindRow(endMonth)

\* src 710-720: null, or the values of the row and their sum.
TotalsOf(row) ==
    IF Len(row) = 0 THEN << >>
    ELSE << [per |-> row[1].values, total |-> sumSources(row[1].values, SOURCES)] >>

startTotals == TotalsOf(startRow)
endTotals == TotalsOf(endRow)

\* src 1158, 1165: startTotals && endTotals, which chooses between a figure and
\* a dash in the Net Addition row.
bothPresent == Len(startTotals) > 0 /\ Len(endTotals) > 0

\* src 722-732
netAdditions ==
    [per |-> [s \in SourceSet |->
                 IF Len(startTotals) = 0 \/ Len(endTotals) = 0 THEN 0
                 ELSE round2(Exact(endTotals[1].per[s] - startTotals[1].per[s]))],
     total |-> IF bothPresent
               THEN round2(Exact(endTotals[1].total - startTotals[1].total))
               ELSE 0]

(* SpecNet: a history is loaded and the two month pickers are used *)

\* Three months: Coal falls by 0.125 from the first to the second.
CsvNet ==
    << "M", "o", "n", "t", "h", ",", "C", "o", "a", "l", ",", "S", "o", "l",
       "a", "r", "\n", "1", "/", "2", "0", "2", "4", ",", "0", ".", "1", "2",
       "5", ",", "1", "\n", "2", "/", "2", "0", "2", "4", ",", "0", ",", "3",
       ".", "5", "\n", "3", "/", "2", "0", "2", "4", ",", "2", ",", "1" >>

\* Two rows for January 2024, written 1/2024 and 01/2024.
CsvTwoJanuaries ==
    << "M", "o", "n", "t", "h", ",", "C", "o", "a", "l", "\n", "1", "/", "2",
       "0", "2", "4", ",", "5", "\n", "0", "1", "/", "2", "0", "2", "4", ",",
       "7", "\n", "2", "/", "2", "0", "2", "4", ",", "1" >>

NetBodies == { CsvNet, CsvHistory, CsvNoMonths, CsvTwoJanuaries }
NetMonthInputs ==
    { << "2", "0", "2", "4", "-", "0", "1" >>,
      << "2", "0", "2", "4", "-", "0", "2" >>,
      << "2", "0", "2", "4", "-", "0", "3" >>,
      << "2", "0", "2", "3", "-", "1", "2" >>,
      << >> }

InitNet ==
    /\ isoLenient = FALSE
    /\ storeReadThrows = FALSE
    /\ storeWriteThrows = FALSE
    /\ store = [k \in StoreKeys |-> Absent]
    /\ Constructed

NextNet ==
    \/ MountEffects
    \/ \E r \in FetchResults : HistoryFetchSettles(r)
    \/ \E b \in NetBodies : HistoryTextSettles(TRUE, b)
    \/ Unmount
    \/ \E v \in NetMonthInputs : startMonthOnChange(v)
    \/ \E v \in NetMonthInputs : endMonthOnChange(v)

SpecNet == InitNet /\ [][NextNet]_vars

\* The rows of the history that are the snapshot of month.
SnapshotsOf(month) ==
    { i \in 1..Len(history) : month # << >> /\ history[i].month = month }

BothSnapshots == SnapshotsOf(startMonth) # {} /\ SnapshotsOf(endMonth) # {}

\* C20: with a snapshot for the start month and one for the end month, the net
\* addition of each source is end - start rounded to two decimals (ties away
\* from zero) and the total is the rounded difference of the two totals;
\* without one of them every net addition and the total are 0, and the flag
\* that both are present tells the two cases apart.
C20_NetAdditions ==
    /\ bothPresent <=> BothSnapshots
    /\ BothSnapshots =>
           \E i \in SnapshotsOf(startMonth), j \in SnapshotsOf(endMonth) :
               /\ \A s \in SourceSet :
                      netAdditions.per[s] =
                          HalfAwayFromZero(history[j].values[s] - history[i].values[s])
               /\ netAdditions.total =
                      HalfAwayFromZero(SetSum(history[j].values, SourceSet)
                                       - SetSum(history[i].values, SourceSet))
    /\ ~BothSnapshots =>
           /\ \A s \in SourceSet : netAdditions.per[s] = 0
           /\ netAdditions.total = 0

-----------------------------------------------------------------------------
(* The daily chart: dates one day apart, previous-year values and growth *)

\* new Date(iso + "T00:00:00Z"): the date-time format takes YYYY-MM-DD and the
\* expanded-year month form +YYYYYY-MM (day 1); a day past the end of its month
\* (up to 31) is rolled over by a lenient engine and invalid elsewhere; any
\* other text is read here as an invalid date.
ParseDateTime(iso) ==
    IF MatchesISO(iso) THEN
        LET y == DigitsToNat(SubSeq(iso, 1, 4))
            m == DigitsToNat(SubSeq(iso, 6, 7))
            d == DigitsToNat(SubSeq(iso, 9, 10))
        IN  IF m >= 1 /\ m <= 12 /\ d >= 1
               /\ d <= (IF isoLenient THEN 31 ELSE DaysInMonth(y, m - 1))
            THEN [ok |-> TRUE, y |-> y, mi |-> m - 1, d |-> d]
            ELSE [ok |-> FALSE, y |-> 0, mi |-> 0, d |-> 0]
    ELSE IF /\ Len(iso) = 10
            /\ iso[1] \in { "+", "-" }
            /\ iso[8] = "-"
            /\ \A i \in { 2, 3, 4, 5, 6, 7, 9, 10 } : IsDigit(iso[i])
            /\ DigitsToNat(SubSeq(iso, 9, 10)) \in 1..12
    THEN [ok |-> TRUE,
          y |-> (IF iso[1] = "-" THEN -1 ELSE 1) * DigitsToNat(SubSeq(iso, 2, 7)),
          mi |-> DigitsToNat(SubSeq(iso, 9, 10)) - 1,
          d |-> 1]
    ELSE [ok |-> FALSE, y |-> 0, mi |-> 0, d |-> 0]

\* d.toISOString().slice(0, 10): four digits for the years 0..9999, a sign and
\* six digits outside them, of which the slice keeps the year and the month.
ToISODate(y, mi, d) ==
    IF y >= 0 /\ y <= 9999
    THEN D4(y) \o << "-" >> \o D2(mi + 1) \o << "-" >> \o D2(d)
    ELSE << (IF y < 0 THEN "-" ELSE "+") >>
         \o PadStart(NatToDigits(IF y < 0 THEN -y ELSE y), 6, "0")
         \o << "-" >> \o D2(mi + 1)

\* src 346-357: isoMinusDays is isoPlusDays of -days. toISOString of an invalid
\* date throws a RangeError.
isoPlusDays(iso, days) ==
    LET p == ParseDateTime(iso)
        r == RollDays(p.y, p.mi, p.d + days)
    IN  IF ~p.ok THEN [threw |-> TRUE, s |-> << >>]
        ELSE [threw |-> FALSE, s |-> ToISODate(r[1], r[2], r[3])]

isoMinusDays(iso, days) == isoPlusDays(iso, 0 - days)

\* src 280-282
clamp(n, min, max) ==
    LET lo == IF n > min THEN n ELSE min IN IF lo < max THEN lo ELSE max

\* A number or null, and a quotient num / den or null: a quotient whose den is
\* 0 stands for the Infinity or NaN of a division by zero.
NoNum == [has |-> FALSE, v |-> 0]
SomeNum(v) == [has |-> TRUE, v |-> v]
NoRatio == [has |-> FALSE, num |-> 0, den |-> 1]

\* A division that does not look at its divisor.
safeDiv_Unguarded(n, d) ==
    IF ~d.has THEN NoRatio ELSE [has |-> TRUE, num |-> n, den |-> d.v]

\* src 359-362
safeDiv(n, d) ==
    IF ~d.has \/ d.v = 0 THEN NoRatio ELSE [has |-> TRUE, num |-> n, den |-> d.v]

\* src 364-367
growthPct(curr, prev) ==
    LET r == safeDiv(curr - prev, SomeNum(prev))
    IN  IF ~r.has THEN NoRatio ELSE [r EXCEPT !.num = @ * 100]

\* src 828: `${Number(cur.slice(0, 4)) - 1}${cur.slice(4)}`
prevYearKey(cur) ==
    IntToString((NumberOf(SubSeq(cur, 1, 4)).v \div Scale) - 1)
        \o SubSeq(cur, 5, Len(cur))

\* src 785: dailyLookup.get(k), undefined as null.
dailyLookup(m, k) == IF k \in DOMAIN m THEN SomeNum(m[k]) ELSE NoNum

\* src 839: the length of out above which the loop is left.
ChartCap == 5000

\* a <= b on strings.
StrLeq(a, b) == ~StrLess(b, a)

(* SpecChart: dailyChart run step by step on a record map and a selection *)

ChartKey(y, m, d) == IsoText(d, m, y)

\* Record maps: a day with its previous-year day and the day 365 days before; a
\* day whose previous-year day has no record; a previous-year value of 0; the
\* years 999 and 1000; the last day of the year 9999; no record.
ChartMaps ==
    { (ChartKey(2024, 3, 1) :> 6 * Scale) @@ (ChartKey(2023, 3, 1) :> 5 * Scale)
          @@ (ChartKey(2023, 3, 2) :> 0),
      (ChartKey(2024, 3, 1) :> 6 * Scale) @@ (ChartKey(2023, 3, 2) :> 4 * Scale),
      (ChartKey(2024, 3, 2) :> 3 * Scale) @@ (ChartKey(2023, 3, 2) :> 0),
      (ChartKey(1000, 1, 1) :> 2 * Scale) @@ (ChartKey(999, 1, 1) :> 1 * Scale),
      (ChartKey(9999, 12, 31) :> 1 * Scale),
      EmptyMap }

\* What the two date pickers hold: nothing, or a date near the records.
ChartPicks(m) ==
    { << >> } \cup
    (IF m = EmptyMap THEN { ChartKey(2024, 3, 1) }
     ELSE IF ChartKey(9999, 12, 31) \in DOMAIN m
          THEN { ChartKey(9999, 12, 30), ChartKey(9999, 12, 31) }
     ELSE IF ChartKey(1000, 1, 1) \in DOMAIN m
          THEN { ChartKey(998, 12, 30), ChartKey(1000, 1, 2) }
     ELSE { ChartKey(2023, 2, 27), ChartKey(2024, 3, 2) })

ChartRanges == { 60, 120 }

InitChart ==
    /\ isoLenient \in BOOLEAN
    /\ ComponentAtRest
    /\ fnArg \in UNION { { [fn |-> "dailyChart", m |-> m, fromIso |-> f,
                              toIso |-> t, rangeDays |-> r] :
                                 f \in ChartPicks(m), t \in ChartPicks(m),
                                 r \in ChartRanges } :
                            m \in ChartMaps }
    /\ fnRes = NoCall

ChartDone(out) ==
    [fn |-> "dailyChart", pc |-> "done", cur |-> << >>, t |-> << >>, out |-> out]
ChartThrew(out) ==
    [fn |-> "dailyChart", pc |-> "threw", cur |-> << >>, t |-> << >>, out |-> out]

\* src 811-824: up to the first test of the loop.
ChartBegin ==
    /\ fnRes.fn = "none"
    /\ \E ds \in { dailySorted(fnArg.m) } :
         IF Len(ds) = 0 THEN fnRes' = ChartDone(<< >>)
         ELSE \E back \in { isoMinusDays(ds[Len(ds)].date, clamp(fnArg.rangeDays, 7, 3650)) } :
              LET lastIso == ds[Len(ds)].date
                  effectiveTo == IF fnArg.toIso # << >> THEN fnArg.toIso ELSE lastIso
                  effectiveFrom == IF fnArg.fromIso # << >> THEN fnArg.fromIso ELSE back.s
                  f == IF StrLeq(effectiveFrom, effectiveTo) THEN effectiveFrom ELSE effectiveTo
                  t == IF StrLeq(effectiveFrom, effectiveTo) THEN effectiveTo ELSE effectiveFrom
              IN  fnRes' = IF fnArg.fromIso = << >> /\ back.threw THEN ChartThrew(<< >>)
                           ELSE [fn |-> "dailyChart", pc |-> "test", cur |-> f, t |-> t,
                                 out |-> << >>]
    /\ UNCHANGED << fnArg, componentVars, isoLenient >>

\* src 826: while (cur <= t)
ChartTest ==
    /\ fnRes.fn = "dailyChart"
    /\ fnRes.pc = "test"
    /\ fnRes' = IF StrLeq(fnRes.cur, fnRes.t) THEN [fnRes EXCEPT !.pc = "body"]
                ELSE ChartDone(fnRes.out)
    /\ UNCHANGED << fnArg, componentVars, isoLenient >>

\* src 827-839: one pass through the body of the loop.
ChartBody ==
    /\ fnRes.fn = "dailyChart"
    /\ fnRes.pc = "body"
    /\ \E next \in { isoPlusDays(fnRes.cur, 1) } :
       LET cur == fnRes.cur
           v == dailyLookup(fnArg.m, cur)
           pyVal == dailyLookup(fnArg.m, prevYearKey(cur))
           point == [label |-> formatDDMMYYYY(cur),
                     units |-> v.v,
                     prev_year_units |-> pyVal,
                     yoy_pct |-> IF pyVal.has THEN growthPct(v.v, pyVal.v) ELSE NoRatio]
           out == IF v.has THEN Append(fnRes.out, point) ELSE fnRes.out
       IN  fnRes' = IF next.threw THEN ChartThrew(out)
                    ELSE IF Len(out) > ChartCap THEN ChartDone(out)
                    ELSE [fnRes EXCEPT !.pc = "test", !.cur = next.s, !.out = out]
    /\ UNCHANGED << fnArg, componentVars, isoLenient >>

NextChart == ChartBegin \/ ChartTest \/ ChartBody

SpecChart == InitChart /\ [][NextChart]_vars

\* The loop is run to its end: no step of it waits on anything.
SpecChartLive == SpecChart /\ WF_vars(NextChart)

\* The date YYYY-MM-DD of a chart point, read back from its label DD-MM-YYYY.
PointDate(p) ==
    SubSeq(p.label, 7, 10) \o << "-" >> \o SubSeq(p.label, 4, 5) \o << "-" >>
        \o SubSeq(p.label, 1, 2)

\* The date with the month and day of date and the year before its year.
SameDayYearBefore(date) ==
    D4(DigitsToNat(SubSeq(date, 1, 4)) - 1) \o SubSeq(date, 5, 10)

\* C21: the previous-year value of every chart point is the stored record at
\* the same month and day of the year before; without a record at that date
\* the previous-year value and the year-over-year percentage are both null.
C21_PreviousYearSameDay ==
    fnRes.fn = "dailyChart" =>
        \A i \in 1..Len(fnRes.out) :
            LET p == fnRes.out[i]
                before == SameDayYearBefore(PointDate(p))
            IN  IF before \in DOMAIN fnArg.m
                THEN p.prev_year_units = SomeNum(fnArg.m[before])
                ELSE ~p.prev_year_units.has /\ ~p.yoy_pct.has

-----------------------------------------------------------------------------
(* The axis domain of the chart *)

\* An entry of the values handed to computeDomain: null, a number that is not
\* finite, or a finite number.
NullEntry == [kind |-> "null", v |-> 0]
NonFiniteEntry == [kind |-> "nonfinite", v |-> 0]
NumberEntry(n) == [kind |-> "number", v |-> n]

\* src 380: values.filter(v => typeof v === "number" && Number.isFinite(v))
FiniteNumbers(values) == SelectSeq(values, LAMBDA e : e.kind = "number")

\* Math.min(...nums) and Math.max(...nums) of a sequence that is not empty.
RECURSIVE MinFrom(_, _, _)
MinFrom(nums, i, best) ==
    IF i > Len(nums) THEN best
    ELSE MinFrom(nums, i + 1, IF nums[i].v < best THEN nums[i].v ELSE best)

RECURSIVE MaxFrom(_, _, _)
MaxFrom(nums, i, best) ==
    IF i > Len(nums) THEN best
    ELSE MaxFrom(nums, i + 1, IF nums[i].v > best THEN nums[i].v ELSE best)

MathMax(a, b) == IF a > b THEN a ELSE b

Undefined == [def |-> FALSE, lo |-> 0, hi |-> 0, den |-> 1]

\* A domain padded by the share of the range alone.
computeDomain_SharePadOnly(values, padPct, minAbsPad) ==
    LET nums == FiniteNumbers(values)
        min == MinFrom(nums, 2, nums[1].v)
        max == MaxFrom(nums, 2, nums[1].v)
        pad == (IF min = max THEN Abs(min) ELSE max - min) * padPct.num
    IN  IF Len(nums) = 0 THEN Undefined
        ELSE [def |-> TRUE, lo |-> min * padPct.den - pad,
              hi |-> max * padPct.den + pad, den |-> padPct.den]

\* src 379-391, with padPct held as the fraction num / den (0.05 is 1 / 20) and
\* the two ends of the result counted in 1 / den of the unit of the values.
computeDomain(values, padPct, minAbsPad) ==
    LET nums == FiniteNumbers(values)
        min == MinFrom(nums, 2, nums[1].v)
        max == MaxFrom(nums, 2, nums[1].v)
        pad == IF min = max
               THEN MathMax(minAbsPad * padPct.den, Abs(min) * padPct.num)
               ELSE MathMax(minAbsPad * padPct.den, (max - min) * padPct.num)
    IN  IF Len(nums) = 0 THEN Undefined
        ELSE [def |-> TRUE, lo |-> min * padPct.den - pad,
              hi |-> max * padPct.den + pad, den |-> padPct.den]

(* SpecDomain: computeDomain on short lists of values *)

MaxValues == 3
DomainEntries ==
    { NullEntry, NonFiniteEntry, NumberEntry(0), NumberEntry(50 * Scale),
      NumberEntry(0 - (5 * Scale) \div 2), NumberEntry(20 * Scale) }

\* src 852, 858: the two calls, computeDomain(vals, 0.05, 0.5) and
\* computeDomain(vals, 0.05, 1).
FivePercent == [num |-> 1, den |-> 20]
DomainMinPads == { Scale \div 2, Scale }

InitDomain ==
    /\ isoLenient = FALSE
    /\ ComponentAtRest
    /\ fnArg \in { [fn |-> "computeDomain", values |-> vs, padPct |-> FivePercent,
                    minAbsPad |-> mp] :
                       vs \in UNION { [1..n -> DomainEntries] : n \in 0..MaxValues },
                       mp \in DomainMinPads }
    /\ fnRes = NoCall

CallComputeDomain ==
    /\ fnRes.fn = "none"
    /\ fnArg.fn = "computeDomain"
    /\ fnRes' = [fn |-> "computeDomain",
                 out |-> computeDomain(fnArg.values, fnArg.padPct, fnArg.minAbsPad)]
    /\ UNCHANGED << fnArg, componentVars, isoLenient >>

NextDomain == CallComputeDomain

SpecDomain == InitDomain /\ [][NextDomain]_vars

\* The finite numbers among the values.
FiniteSet(values) == { values[i].v : i \in { j \in 1..Len(values) : values[j].kind = "number" } }
Least(S) == CHOOSE x \in S : \A y \in S : x <= y
Greatest(S) == CHOOSE x \in S : \A y \in S : x >= y

\* C23: computeDomain returns undefined when no finite number remains;
\* otherwise [min - pad, max + pad] with pad the larger of minAbsPad and the
\* share padPct of the range (of |min| for a single distinct value), an
\* interval of positive width that contains every value; [50] with minAbsPad 1
\* gives [47.5, 52.5].
C23_ComputeDomain ==
    fnRes.fn = "computeDomain" =>
        LET S == FiniteSet(fnArg.values)
            out == fnRes.out
            den == fnArg.padPct.den
            num == fnArg.padPct.num
            share == IF Least(S) = Greatest(S) THEN Abs(Least(S)) * num
                     ELSE (Greatest(S) - Least(S)) * num
            pad == IF fnArg.minAbsPad * den >= share THEN fnArg.minAbsPad * den ELSE share
        IN  /\ out.def <=> S # {}
            /\ out.def =>
                   /\ out.den = den
                   /\ out.lo = Least(S) * den - pad
                   /\ out.hi = Greatest(S) * den + pad
                   /\ out.lo < out.hi
                   /\ \A x \in S : out.lo <= x * den /\ x * den <= out.hi
            /\ (fnArg.values = << NumberEntry(50 * Scale) >> /\ fnArg.minAbsPad = Scale)
                   => (out.lo * 2 = 95 * Scale * den /\ out.hi * 2 = 105 * Scale * den)

\* C23 witness: a constant series of zeros with a null among them has been
\* given the domain [-0.5, 0.5].
C23_Witness ==
    /\ fnRes.fn = "computeDomain"
    /\ fnArg.values = << NumberEntry(0), NullEntry, NumberEntry(0) >>
    /\ fnArg.minAbsPad = Scale \div 2
    /\ fnRes.out.def
    /\ fnRes.out.lo * 2 = 0 - Scale * fnRes.out.den
    /\ fnRes.out.hi * 2 = Scale * fnRes.out.den

\* C25: the loaded history holds one snapshot per month key: no two of its
\* rows share a month key.
C25_OneSnapshotPerMonth ==
    \A i, j \in 1..Len(history) :
        history[i].month = history[j].month => i = j

\* C26: once the history holds a month, after any picker changes made before
\* or after it arrived, the start month and the end month are both months of
\* the history, the start month is not after the end month by year and then
\* month, and so both snapshots are present.
C26_MonthRangeReconciled ==
    Len(history) > 0 =>
        /\ \E i \in 1..Len(monthOptions(history)) : monthOptions(history)[i] = startMonth
        /\ \E i \in 1..Len(monthOptions(history)) : monthOptions(history)[i] = endMonth
        /\ \/ KeyYear(startMonth) < KeyYear(endMonth)
           \/ /\ KeyYear(startMonth) = KeyYear(endMonth)
              /\ KeyMonth(startMonth) <= KeyMonth(endMonth)
        /\ BothSnapshots
        /\ bothPresent

\* C26 witness: the three months of 2024 are loaded, and the pickers rest on
\* February and March.
C26_Witness ==
    /\ histFetch.outcome = "applied"
    /\ Len(history) = 3
    /\ history[1].month = MonthKey(1, 2024)
    /\ startMonth = MonthKey(2, 2024)
    /\ endMonth = MonthKey(3, 2024)
    /\ bothPresent

-----------------------------------------------------------------------------
(* SpecFinite: malformed numbers in the store, the two CSV files and the inputs *)

\* A capacity row with a word, an empty cell and a number.
CsvCells ==
    << "C", "o", "a", "l", ",", "S", "o", "l", "a", "r", ",", "W", "i", "n",
       "d", "\n", "a", "b", "c", ",", ",", "7" >>

\* What is typed into an installed or PLF input, with the number it is to be
\* stored as: a number, a negative number, a word, nothing, digits with a tail.
TypedNumbers ==
    (<< "5" >> :> 5 * Scale) @@ (<< "-", "2", ".", "5" >> :> 0 - (5 * Scale) \div 2)
        @@ (<< "x" >> :> 0) @@ (<< >> :> 0) @@ (<< "5", "x" >> :> 0)

StoredSources == JsonObject(("Coal" :> << "5" >>) @@ ("Solar" :> << "x" >>))

InitFinite ==
    /\ isoLenient = FALSE
    /\ storeReadThrows = FALSE
    /\ storeWriteThrows = FALSE
    /\ store \in { [k \in StoreKeys |-> Absent],
                   [k \in StoreKeys |-> IF k = DAILY_KEY THEN Absent ELSE StoredSources] }
    /\ Constructed

NextFinite ==
    \/ MountEffects
    \/ CapacityFetchSettles("ok")
    \/ CapacityTextSettles(TRUE, CsvCells)
    \/ HistoryFetchSettles("ok")
    \/ HistoryTextSettles(TRUE, CsvHistory)
    \/ \E s \in RatedSources, t \in DOMAIN TypedNumbers : installedOnChange(s, t)
    \/ \E s \in RatedSources, t \in DOMAIN TypedNumbers : plfOnChange(s, t)

SpecFinite == InitFinite /\ [][NextFinite]_vars

\* f is v on the sources of vals and 0 on every other source.
ZeroExcept(f, vals) ==
    \A s \in SourceSet : f[s] = (IF s \in DOMAIN vals THEN vals[s] ELSE 0)

-----------------------------------------------------------------------------
(* The capacity bootstrap fetch, under SpecBoot *)

\* The installed capacity each file gives when its load is applied: the first
\* data row under the headers that are source names, 0 for every other source.
InstalledFromFile ==
    (CsvSingleRow :> (("Coal" :> 3 * Scale) @@ ("Wind" :> (5 * Scale) \div 2)))
        @@ (CsvHistory :> (("Coal" :> 5 * Scale) @@ ("Solar" :> 7 * Scale)))
        @@ (CsvNoMonths :> << >>)
        @@ (CsvQuoted :> << >>)

\* C27: when the capacity fetch completes successfully on a mounted component,
\* the installed capacity of all eight sources becomes the value of the CSV
\* row, 0 for a source without a column, whatever was typed into the installed
\* inputs while the fetch was in flight.
C27_FetchOverwritesEdits ==
    [][\A b \in BootBodies :
           (phase = "mounted" /\ CapacityTextSettles(TRUE, b)
            /\ capFetch'.outcome = "applied")
               => /\ b \in DOMAIN InstalledFromFile
                  /\ ZeroExcept(installed', InstalledFromFile[b])
                  /\ capFetch.base = ZeroSources]_vars

\* C27 witness: the single-row file has been applied on a mounted component:
\* Coal 3 and Wind 2.5, 0 elsewhere.
C27_Witness ==
    /\ phase = "mounted"
    /\ capFetch.outcome = "applied"
    /\ ZeroExcept(installed, InstalledFromFile[CsvSingleRow])
    /\ lastWrite.installed = installed

\* C28: the capacity fetch is started at mount only when every restored
\* installed value is zero; when one is not, no fetch is ever issued, and the
\* installed capacity and the capacity warning change only by a manual edit
\* of an installed input, never by the CSV.
C28_FetchOnlyWhenAllZero ==
    [][/\ MountEffects =>
              ((capFetch'.pc = "fetch") <=> (\A s \in SourceSet : installed[s] = 0))
       /\ (phase # "constructed" /\ capFetch.pc = "idle") =>
              /\ capFetch'.pc = "idle"
              /\ capacityCsvMissing' = capacityCsvMissing
              /\ capacityCsvMsg' = capacityCsvMsg
              /\ installed' # installed =>
                     \E t \in SourceInputs : installedOnChange("Coal", t)]_vars

\* C28 witness: a component that restored Coal 5 and issued no capacity fetch
\* has received the CSV through the history load; the installed capacity is
\* as restored and there is no warning.
C28_Witness ==
    /\ phase = "mounted"
    /\ capFetch = IdleFetch
    /\ histFetch.outcome = "applied"
    /\ Len(history) = 2
    /\ ZeroExcept(installed, "Coal" :> 5 * Scale)
    /\ capacityCsvMissing = FALSE

(* Termination of the daily chart, under SpecChartLive *)

\* The two ends of the selection of a run: the picker values, or the defaults
\* the chart takes when a picker is empty (the last record, and the range
\* before it).
SelectedEnds ==
    LET ds == dailySorted(fnArg.m)
        lastIso == ds[Len(ds)].date
    IN  { IF fnArg.toIso # << >> THEN fnArg.toIso ELSE lastIso,
          IF fnArg.fromIso # << >> THEN fnArg.fromIso
          ELSE isoMinusDays(lastIso, clamp(fnArg.rangeDays, 7, 3650)).s }

\* The points built so far are at most ChartCap + 1, in strictly ascending
\* date order, and each is a stored record dated within the selection.
ChartPointsSound ==
    fnRes.fn = "dailyChart" =>
        /\ Len(fnRes.out) <= ChartCap + 1
        /\ \A i \in 1..Len(fnRes.out) :
               LET date == PointDate(fnRes.out[i])
               IN  /\ date \in DOMAIN fnArg.m
                   /\ fnRes.out[i].units = fnArg.m[date]
                   /\ \E lo \in SelectedEnds : StrLeq(lo, date)
                   /\ \E hi \in SelectedEnds : StrLeq(date, hi)
                   /\ i > 1 => StrLess(PointDate(fnRes.out[i - 1]), date)

\* C29: building the daily chart terminates for every record set and every
\* from/to selection, and returns at most 5001 points, in strictly ascending
\* date order, each a stored record dated within [min(from, to), max(from, to)].
C29_DailyChartTerminates ==
    /\ <>(fnRes.fn = "dailyChart" /\ fnRes.pc = "done")
    /\ [](ChartPointsSound)

====
